---- MODULE Spec2Model ----
(***************************************************************************)
(* Model of the data-acquisition pipeline of Arbitragem-Sentiment-CRYPTO:  *)
(* the per-adapter rate limiter (_handle_rate_limit), the retry decorator  *)
(* (retry_on_failure), the request executor (_make_request) and the        *)
(* arbitrage analysis of the CoinCap collector, the collector's cached     *)
(* operations and its collection cycle (collect_comprehensive_data).       *)
(*                                                                         *)
(* Time is in whole seconds for the limiter, in milliseconds for the retry *)
(* delays.  Prices and volumes are whole USD.  A spread is kept as the     *)
(* exact fraction spread_num / spread_den (percent), so comparisons are    *)
(* exact where the code compares floats.                                   *)
(***************************************************************************)
EXTENDS Integers, Sequences, FiniteSets, TLC

VARIABLES
    now,                \* time.time(), seconds
    rate_limit,         \* self.rate_limit
    request_count,      \* self.request_count
    last_minute_start,  \* self.last_minute_start
    rl_pc,              \* per task: position inside _handle_rate_limit
    rl_wake,            \* per task: time at which asyncio.sleep(wait_time) is due
    rl_issued,          \* per task: when the pending acquire was issued, and its window
    rl_log,             \* the acquires that returned, in order of return
    random_imported,    \* whether the name `random` is bound in decorators' globals
    r_params,           \* retry_on_failure(max_attempts, delay, backoff_factor, jitter)
    r_script,           \* what func does at its 1st, 2nd, ... invocation
    r_pc,               \* position of the wrapper
    r_attempt,          \* attempt
    r_current_delay,    \* current_delay, ms
    r_last_exception,   \* last_exception
    r_invocations,      \* the attempt numbers at which func was invoked, in order
    r_delays,           \* the delays slept, ms, in order
    r_result,           \* what the wrapper returned or raised
    session,            \* self.session: "none", "open" or "closed"
    f_pc,               \* position of _make_request
    f_start,            \* start_time
    f_calls,            \* calls of _make_request so far
    f_returned,         \* APIResponse objects returned so far
    f_escaped,          \* exceptions that left _make_request so far
    f_last,             \* the last exchange: session state, HTTP result, what came back
    a_markets,          \* markets: what api.get_arbitrage_opportunities(symbol) gave
    min_spread_percentage,  \* self.min_spread_percentage, in hundredths of a percent
    a_pc,               \* "ready" before the analysis, "done" after it
    a_result,           \* the list collect_arbitrage_opportunities returns
    errors_count,       \* self.metrics.errors_count
    target_symbols,     \* self.target_symbols
    api_calls_made,     \* self.metrics.api_calls_made
    opportunities_found,    \* self.metrics.opportunities_found
    exchanges_collected,    \* self.metrics.exchanges_collected
    cache_hits,         \* self.metrics.cache_hits
    cache,              \* per cache key: the entry cache_with_ttl holds
    k_call,             \* the last direct call of a cached operation
    c_pc,               \* position of collect_comprehensive_data
    c_runs,             \* calls of collect_comprehensive_data so far
    c_tasks,            \* per key: the coroutine handed to asyncio.gather
    c_results,          \* results
    c_outcome,          \* what the last collect_comprehensive_data gave its caller
    c_run_events,       \* adapter calls, counted errors and cache hits of the current run
    c_adapter,          \* per key: what the adapter call of the current run did
    ad_method,          \* the adapter method called
    ad_response,        \* the APIResponse _make_request gave it
    ad_pc,              \* "ready" before the method runs, "done" after it
    ad_outcome          \* what the method returned, or that it raised

rl_vars == <<now, rate_limit, request_count, last_minute_start,
             rl_pc, rl_wake, rl_issued, rl_log>>

r_vars == <<random_imported, r_params, r_script, r_pc, r_attempt, r_current_delay,
            r_last_exception, r_invocations, r_delays, r_result>>

f_vars == <<session, f_pc, f_start, f_calls, f_returned, f_escaped, f_last>>

a_vars == <<a_markets, min_spread_percentage, a_pc, a_result, errors_count>>

a_io_vars == <<a_markets, min_spread_percentage, a_pc, a_result>>

metric_vars == <<api_calls_made, opportunities_found, exchanges_collected, cache_hits>>

run_vars == <<c_pc, c_runs, c_tasks, c_results, c_outcome, c_run_events, c_adapter>>

c_vars == <<target_symbols, metric_vars, cache, k_call, run_vars>>

ad_vars == <<ad_method, ad_response, ad_pc, ad_outcome>>

vars == <<rl_vars, r_vars, f_vars, a_vars, c_vars, ad_vars>>

\* What the limiter's steps, the retry wrapper's steps and the executor's steps
\* leave alone.
non_rl_vars == <<r_vars, f_vars, a_vars, c_vars, ad_vars>>
non_r_vars == <<rl_vars, f_vars, a_vars, c_vars, ad_vars>>
non_f_vars == <<r_vars, a_vars, c_vars, ad_vars>>
non_a_vars == <<rl_vars, r_vars, f_vars, c_vars, ad_vars>>
non_c_vars == <<rl_vars, r_vars, f_vars, a_io_vars, ad_vars>>
non_ad_vars == <<rl_vars, r_vars, f_vars, a_vars, c_vars>>

----------------------------------------------------------------------------
(* Bounds of the model *)

MaxWindows == 2
MaxRateLimit == 2
MaxCalls == 5
MaxAttempts == 3
MaxFetches == 2
MaxMarkets == 3
MaxCachedCalls == 3
MaxRuns == 2
MaxRecords == 2

(* Program constants *)

Window == 60

Tasks == {1, 2}
SingleCaller == {1}
RateLimits == 1..MaxRateLimit
\* The instants at which the model looks at the limiter: one second before, at
\* and one second after every multiple of the window length.
TimePoints == {p \in {k * Window + d : k \in 0..MaxWindows, d \in {-1, 0, 1}} : p >= 0}

----------------------------------------------------------------------------
(* RateLimiter: BaseArbitragemAPI._handle_rate_limit *)

WindowElapsed_Strict(current_time, start) == current_time - start > Window

\* if current_time - self.last_minute_start >= 60
WindowElapsed(current_time, start) == current_time - start >= Window

LimitReached_Off(count, limit) == count > limit

\* if self.request_count >= self.rate_limit
LimitReached(count, limit) == count >= limit

WaitTime_TwoWindows(current_time, start) == 2 * Window - (current_time - start)

\* wait_time = 60 - (current_time - self.last_minute_start)
WaitTime(current_time, start) == Window - (current_time - start)

CountAfterRollover_Keep(current_time) == request_count

\* The counter and window-start after the roll-over check at the top of the call.
CountAfterRollover(current_time) ==
    IF WindowElapsed(current_time, last_minute_start) THEN 0 ELSE request_count

StartAfterRollover(current_time) ==
    IF WindowElapsed(current_time, last_minute_start) THEN current_time
    ELSE last_minute_start

\* get_rate_limit_status()
GetRateLimitStatus ==
    [requests_made |-> request_count,
     rate_limit |-> rate_limit,
     requests_remaining |-> rate_limit - request_count,
     reset_time |-> last_minute_start + Window]

ReturnRecord(issued, iw, ret, w, susp) ==
    [issued |-> issued, iw |-> iw, ret |-> ret, w |-> w, susp |-> susp]

\* __init__: request_count = 0, last_minute_start = time.time()
RateLimiterInit ==
    /\ now = 0
    /\ rate_limit \in RateLimits
    /\ request_count = 0
    /\ last_minute_start = 0
    /\ rl_pc = [t \in Tasks |-> "idle"]
    /\ rl_wake = [t \in Tasks |-> 0]
    /\ rl_issued = [t \in Tasks |-> [at |-> 0, iw |-> 0]]
    /\ rl_log = <<>>

RateLimiterIdle ==
    /\ now = 0
    /\ rate_limit = 1
    /\ request_count = 0
    /\ last_minute_start = 0
    /\ rl_pc = [t \in Tasks |-> "idle"]
    /\ rl_wake = [t \in Tasks |-> 0]
    /\ rl_issued = [t \in Tasks |-> [at |-> 0, iw |-> 0]]
    /\ rl_log = <<>>

\* The clock advances; a sleeping task may be resumed late, never early.
Tick ==
    /\ \E p \in TimePoints :
        /\ p > now
        /\ now' = p
    /\ UNCHANGED <<rate_limit, request_count, last_minute_start,
                   rl_pc, rl_wake, rl_issued, rl_log>>
    /\ UNCHANGED non_rl_vars

\* _handle_rate_limit up to its return, when it does not sleep.
HandleRateLimitNoWait(t) ==
    /\ rl_pc[t] = "idle"
    /\ LET c == CountAfterRollover(now)
           s == StartAfterRollover(now)
       IN /\ ~(LimitReached(c, rate_limit) /\ WaitTime(now, s) > 0)
          /\ request_count' = c + 1
          /\ last_minute_start' = s
          /\ rl_log' = Append(rl_log, ReturnRecord(now, s, now, s, FALSE))
    /\ UNCHANGED <<now, rate_limit, rl_pc, rl_wake, rl_issued>>

\* _handle_rate_limit up to await asyncio.sleep(wait_time).
HandleRateLimitSleep(t) ==
    /\ rl_pc[t] = "idle"
    /\ LET c == CountAfterRollover(now)
           s == StartAfterRollover(now)
       IN /\ LimitReached(c, rate_limit)
          /\ WaitTime(now, s) > 0
          /\ request_count' = c
          /\ last_minute_start' = s
          /\ rl_wake' = [rl_wake EXCEPT ![t] = now + WaitTime(now, s)]
          /\ rl_issued' = [rl_issued EXCEPT ![t] = [at |-> now, iw |-> s]]
    /\ rl_pc' = [rl_pc EXCEPT ![t] = "sleeping"]
    /\ UNCHANGED <<now, rate_limit, rl_log>>

\* After the sleep: request_count = 0; last_minute_start = time.time();
\* request_count += 1.
HandleRateLimitWake(t) ==
    /\ rl_pc[t] = "sleeping"
    /\ now >= rl_wake[t]
    /\ request_count' = 0 + 1
    /\ last_minute_start' = now
    /\ rl_log' = Append(rl_log,
            ReturnRecord(rl_issued[t].at, rl_issued[t].iw, now, now, TRUE))
    /\ rl_pc' = [rl_pc EXCEPT ![t] = "idle"]
    /\ UNCHANGED <<now, rate_limit, rl_wake, rl_issued>>

\* acquire() called on its own, by a caller that does nothing else.
AcquireNoWait(t) ==
    /\ Len(rl_log) < MaxCalls
    /\ HandleRateLimitNoWait(t)
    /\ UNCHANGED non_rl_vars

AcquireSleep(t) ==
    /\ Len(rl_log) < MaxCalls
    /\ HandleRateLimitSleep(t)
    /\ UNCHANGED non_rl_vars

AcquireWake(t) ==
    /\ HandleRateLimitWake(t)
    /\ UNCHANGED non_rl_vars

LimiterNext ==
    \/ Tick
    \/ \E t \in SingleCaller : AcquireNoWait(t)
    \/ \E t \in SingleCaller : AcquireSleep(t)
    \/ \E t \in SingleCaller : AcquireWake(t)

\* One limiter shared by concurrent tasks: a task runs from one await to the
\* next without interruption, and the only await is the sleep.
SharedLimiterNext ==
    \/ Tick
    \/ \E t \in Tasks : AcquireNoWait(t)
    \/ \E t \in Tasks : AcquireSleep(t)
    \/ \E t \in Tasks : AcquireWake(t)

----------------------------------------------------------------------------
(* RetryPolicy: retry_on_failure and _calculate_delay *)

AttemptBudgets == (-1)..MaxAttempts
Outcomes == {"ok", "retryable", "fatal"}
BaseDelays == {200, 1000}
BackoffTenths == {15, 20}
JitterPercents == {-25, 0, 25}

NoError == [kind |-> "none", attempt |-> 0]
ErrorAt(kind, attempt) == [kind |-> kind, attempt |-> attempt]
NoResult == [kind |-> "none", attempt |-> 0, error |-> NoError]
Returned(attempt) == [kind |-> "value", attempt |-> attempt, error |-> NoError]
Raised(error) == [kind |-> "error", attempt |-> 0, error |-> error]

Max(a, b) == IF a >= b THEN a ELSE b
Min(a, b) == IF a <= b THEN a ELSE b

FirstAttempt_Zero == 1 - 1

\* for attempt in range(1, max_attempts + 1): the first value of the range
FirstAttempt == 1

\* The class of the exception an error kind stands for; an HTTP error carries
\* its status class after the colon.
ClassOf(kind) ==
    CASE kind \in {"ClientResponseError:4xx", "ClientResponseError:5xx"} -> "ClientResponseError"
      [] OTHER -> kind

\* The direct base classes of the exception classes of aiohttp and of the
\* builtins named by the presets; "retryable" and "fatal" are the classes of a
\* caller-chosen `exceptions` tuple and of an error outside it.
Bases(class) ==
    CASE class = "ServerTimeoutError" -> {"ServerConnectionError", "TimeoutError"}
      [] class = "ServerDisconnectedError" -> {"ServerConnectionError"}
      [] class = "ServerConnectionError" -> {"ClientConnectionError"}
      [] class = "ClientConnectorError" -> {"ClientOSError"}
      [] class = "ClientOSError" -> {"ClientConnectionError", "OSError"}
      [] class = "ClientConnectionError" -> {"ClientError"}
      [] class = "ClientResponseError" -> {"ClientError"}
      [] class = "ClientError" -> {"Exception"}
      [] class = "TimeoutError" -> {"OSError"}
      [] class = "ConnectionError" -> {"OSError"}
      [] class = "OSError" -> {"Exception"}
      [] OTHER -> {}

RECURSIVE Mro(_)
\* The class and all its ancestors: what isinstance() matches.
Mro(class) == {class} \cup UNION {Mro(b) : b \in Bases(class)}

\* exceptions=(Exception,) replaced by the caller's own tuple
GenericExceptions == {"retryable"}

\* retry_network_errors: network_exceptions
NetworkExceptions ==
    {"ConnectionError", "TimeoutError", "OSError", "ClientError", "ServerTimeoutError",
     "ClientConnectionError", "ClientConnectorError"}

ApiExceptions_WithClientError ==
    {"ServerTimeoutError", "ServerConnectionError", "ServerDisconnectedError", "ClientError"}

\* retry_api_errors: api_exceptions
ApiExceptions == {"ServerTimeoutError", "ServerConnectionError", "ServerDisconnectedError"}

IsRetryable_Any(kind) == kind # "ok"

\* except exceptions as e: the error is an instance of a class listed in
\* `exceptions`; "fatal" stands for every other kind of error
IsRetryable(kind) ==
    /\ kind # "ok"
    /\ r_params.exceptions \cap Mro(ClassOf(kind)) # {}

InRange_AtLeastOnce(attempt, max_attempts) == attempt <= max_attempts \/ attempt = 1

\* for attempt in range(1, max_attempts + 1): the loop body runs for this attempt
InRange(attempt, max_attempts) == attempt <= max_attempts

\* if attempt == max_attempts: ... break
IsLastAttempt(attempt, max_attempts) == attempt = max_attempts

\* _calculate_delay: the delays it may return, or a NameError when jitter is
\* asked for and `random` is not bound (the module imports it only under
\* __main__).  Minimum 0.1 s when jitter is applied.
CalculateDelay(base_delay, use_jitter) ==
    IF ~use_jitter
    THEN {[ok |-> TRUE, value |-> base_delay]}
    ELSE IF ~random_imported
    THEN {[ok |-> FALSE, value |-> 0]}
    ELSE {[ok |-> TRUE, value |-> Max(100, base_delay + (base_delay * 25 * j) \div 2500)] :
            j \in JitterPercents}

NextDelay_NoBackoff(current_delay, backoff_tenths) == current_delay

\* current_delay *= backoff_factor
NextDelay(current_delay, backoff_tenths) == (current_delay * backoff_tenths) \div 10

\* What func does at its next invocation.
NextOutcome == r_script[Len(r_invocations) + 1]

RetryIdle ==
    /\ random_imported = FALSE
    /\ r_params = [max_attempts |-> 0, delay |-> 0, backoff |-> 0, jitter |-> FALSE,
                   exceptions |-> {}]
    /\ r_script = <<>>
    /\ r_pc = "done"
    /\ r_attempt = 0
    /\ r_current_delay = 0
    /\ r_last_exception = NoError
    /\ r_invocations = <<>>
    /\ r_delays = <<>>
    /\ r_result = NoResult

\* The wrapper is entered: current_delay = delay; last_exception = None.
RetryInit ==
    /\ random_imported \in BOOLEAN
    /\ r_params \in [max_attempts : AttemptBudgets, delay : BaseDelays,
                      backoff : BackoffTenths, jitter : BOOLEAN,
                      exceptions : {GenericExceptions}]
    /\ r_script \in [1..(MaxAttempts + 1) -> Outcomes]
    /\ r_pc = "loop"
    /\ r_attempt = FirstAttempt
    /\ r_current_delay = r_params.delay
    /\ r_last_exception = NoError
    /\ r_invocations = <<>>
    /\ r_delays = <<>>
    /\ r_result = NoResult

\* retry_network_errors(max_attempts, delay): backoff_factor=1.5, jitter=True
RetryNetworkErrors(max_attempts, delay) ==
    [max_attempts |-> max_attempts, delay |-> delay, backoff |-> 15, jitter |-> TRUE,
     exceptions |-> NetworkExceptions]

\* retry_api_errors(max_attempts, delay): backoff_factor=2.0, jitter=True
RetryApiErrors(max_attempts, delay) ==
    [max_attempts |-> max_attempts, delay |-> delay, backoff |-> 20, jitter |-> TRUE,
     exceptions |-> ApiExceptions]

\* What an operation under a preset may do: return, or raise an HTTP error of
\* the client or of the server class, a dropped or refused connection, or the
\* plain Exception the adapters raise for a response that is not a success.
PresetOutcomes ==
    {"ok", "ClientResponseError:4xx", "ClientResponseError:5xx",
     "ServerDisconnectedError", "ClientConnectorError", "Exception"}

\* The wrapper of a preset is entered.
PresetInit ==
    /\ random_imported \in BOOLEAN
    /\ \E m \in AttemptBudgets, d \in BaseDelays :
        r_params \in {RetryNetworkErrors(m, d), RetryApiErrors(m, d)}
    /\ r_script \in [1..(MaxAttempts + 1) -> PresetOutcomes]
    /\ r_pc = "loop"
    /\ r_attempt = FirstAttempt
    /\ r_current_delay = r_params.delay
    /\ r_last_exception = NoError
    /\ r_invocations = <<>>
    /\ r_delays = <<>>
    /\ r_result = NoResult

\* One iteration of the loop in which func returns.
AttemptReturns ==
    /\ r_pc = "loop"
    /\ InRange(r_attempt, r_params.max_attempts)
    /\ NextOutcome = "ok"
    /\ r_invocations' = Append(r_invocations, r_attempt)
    /\ r_result' = Returned(r_attempt)
    /\ r_pc' = "done"
    /\ UNCHANGED <<random_imported, r_params, r_script, r_attempt, r_current_delay,
                   r_last_exception, r_delays>>
    /\ UNCHANGED non_r_vars

\* One iteration in which func raises an error of a kind in `exceptions`:
\* up to the break and the raise after the loop, or up to the sleep.
AttemptFailsRetryable ==
    /\ r_pc = "loop"
    /\ InRange(r_attempt, r_params.max_attempts)
    /\ IsRetryable(NextOutcome)
    /\ r_invocations' = Append(r_invocations, r_attempt)
    /\ r_last_exception' = ErrorAt(NextOutcome, r_attempt)
    /\ IF IsLastAttempt(r_attempt, r_params.max_attempts)
       THEN /\ r_result' = Raised(r_last_exception')
            /\ r_pc' = "done"
            /\ UNCHANGED r_delays
       ELSE \E d \in CalculateDelay(r_current_delay, r_params.jitter) :
            IF d.ok
            THEN /\ r_delays' = Append(r_delays, d.value)
                 /\ r_pc' = "sleeping"
                 /\ UNCHANGED r_result
            ELSE /\ r_result' = Raised(ErrorAt("NameError", r_attempt))
                 /\ r_pc' = "done"
                 /\ UNCHANGED r_delays
    /\ UNCHANGED <<random_imported, r_params, r_script, r_attempt, r_current_delay>>
    /\ UNCHANGED non_r_vars

\* One iteration in which func raises an error of a kind not in `exceptions`:
\* except Exception ... raise.
AttemptFailsFatal ==
    /\ r_pc = "loop"
    /\ InRange(r_attempt, r_params.max_attempts)
    /\ NextOutcome # "ok"
    /\ ~IsRetryable(NextOutcome)
    /\ r_invocations' = Append(r_invocations, r_attempt)
    /\ r_result' = Raised(ErrorAt(NextOutcome, r_attempt))
    /\ r_pc' = "done"
    /\ UNCHANGED <<random_imported, r_params, r_script, r_attempt, r_current_delay,
                   r_last_exception, r_delays>>
    /\ UNCHANGED non_r_vars

\* The sleep is over: current_delay *= backoff_factor, and the loop goes on.
RetryWake ==
    /\ r_pc = "sleeping"
    /\ r_current_delay' = NextDelay(r_current_delay, r_params.backoff)
    /\ r_attempt' = r_attempt + 1
    /\ r_pc' = "loop"
    /\ UNCHANGED <<random_imported, r_params, r_script, r_last_exception,
                   r_invocations, r_delays, r_result>>
    /\ UNCHANGED non_r_vars

\* The range is used up without a return, a break or a raise, which happens when
\* it is empty (max_attempts <= 0): raise last_exception, a TypeError when it is
\* still None.
RaiseAfterLoop ==
    /\ r_pc = "loop"
    /\ ~InRange(r_attempt, r_params.max_attempts)
    /\ r_result' = IF r_last_exception = NoError
                   THEN Raised(ErrorAt("TypeError", 0))
                   ELSE Raised(r_last_exception)
    /\ r_pc' = "done"
    /\ UNCHANGED <<random_imported, r_params, r_script, r_attempt, r_current_delay,
                   r_last_exception, r_invocations, r_delays>>
    /\ UNCHANGED non_r_vars

\* The random offsets one run draws, one per delay.
JitterDraws == [1..MaxAttempts -> JitterPercents]

\* _calculate_delay when random.uniform gives the offset j percent of the
\* range; ok is FALSE for the NameError of the unbound `random`.
DelayDrawn(base_delay, use_jitter, j) ==
    IF ~use_jitter
    THEN [ok |-> TRUE, value |-> base_delay]
    ELSE IF ~random_imported
    THEN [ok |-> FALSE, value |-> 0]
    ELSE [ok |-> TRUE, value |-> Max(100, base_delay + (base_delay * 25 * j) \div 2500)]

\* time.sleep(d) raises ValueError for a negative length.
TimeSleepRaises(d) == d < 0

\* asyncio.sleep(d) returns at once for a length that is not positive.
AsyncioSleepRaises(d) == FALSE

\* What a run of a wrapper did: the attempts at which func was invoked, the
\* delays slept and the value returned or error raised.
RunOf(invocations, delays, result) ==
    [invocations |-> invocations, delays |-> delays, result |-> result]

AfterLoop(last_exception) ==
    IF last_exception = NoError
    THEN Raised(ErrorAt("TypeError", 0))
    ELSE Raised(last_exception)

RECURSIVE SyncWrapper(_, _, _, _, _, _, _)
\* sync_wrapper from `for attempt in range(1, max_attempts + 1)` on, at
\* `attempt`; func does what `script` says and `draws` are the jitter offsets.
SyncWrapper(p, script, draws, attempt, current_delay, last_exception, run) ==
    IF attempt > p.max_attempts
    THEN RunOf(run.invocations, run.delays, AfterLoop(last_exception))
    ELSE LET outcome == script[attempt]
             invoked == Append(run.invocations, attempt)
         IN IF outcome = "ok"
            THEN RunOf(invoked, run.delays, Returned(attempt))
            ELSE IF p.exceptions \cap Mro(ClassOf(outcome)) # {}
            THEN IF attempt = p.max_attempts
                 THEN RunOf(invoked, run.delays, Raised(ErrorAt(outcome, attempt)))
                 ELSE LET actual_delay == DelayDrawn(current_delay, p.jitter, draws[attempt])
                      IN IF ~actual_delay.ok
                         THEN RunOf(invoked, run.delays,
                                    Raised(ErrorAt("NameError", attempt)))
                         ELSE IF TimeSleepRaises(actual_delay.value)
                         THEN RunOf(invoked, run.delays,
                                    Raised(ErrorAt("ValueError", attempt)))
                         ELSE SyncWrapper(p, script, draws, attempt + 1,
                                          (current_delay * p.backoff) \div 10,
                                          ErrorAt(outcome, attempt),
                                          RunOf(invoked,
                                                Append(run.delays, actual_delay.value),
                                                NoResult))
            ELSE RunOf(invoked, run.delays, Raised(ErrorAt(outcome, attempt)))

RECURSIVE AsyncWrapper(_, _, _, _, _, _, _)
\* async_wrapper, the same way: func is awaited and the delay is an
\* asyncio.sleep.
AsyncWrapper(p, script, draws, attempt, current_delay, last_exception, run) ==
    IF ~InRange(attempt, p.max_attempts)
    THEN RunOf(run.invocations, run.delays, AfterLoop(last_exception))
    ELSE LET outcome == script[attempt]
             invoked == Append(run.invocations, attempt)
         IN IF outcome = "ok"
            THEN RunOf(invoked, run.delays, Returned(attempt))
            ELSE IF p.exceptions \cap Mro(ClassOf(outcome)) # {}
            THEN IF IsLastAttempt(attempt, p.max_attempts)
                 THEN RunOf(invoked, run.delays, Raised(ErrorAt(outcome, attempt)))
                 ELSE LET actual_delay == DelayDrawn(current_delay, p.jitter, draws[attempt])
                      IN IF ~actual_delay.ok
                         THEN RunOf(invoked, run.delays,
                                    Raised(ErrorAt("NameError", attempt)))
                         ELSE IF AsyncioSleepRaises(actual_delay.value)
                         THEN RunOf(invoked, run.delays,
                                    Raised(ErrorAt("ValueError", attempt)))
                         ELSE AsyncWrapper(p, script, draws, attempt + 1,
                                           NextDelay(current_delay, p.backoff),
                                           ErrorAt(outcome, attempt),
                                           RunOf(invoked,
                                                 Append(run.delays, actual_delay.value),
                                                 NoResult))
            ELSE RunOf(invoked, run.delays, Raised(ErrorAt(outcome, attempt)))

\* The decorated function is called: the wrapper chosen by
\* asyncio.iscoroutinefunction(func) runs from current_delay = delay,
\* last_exception = None.
SyncRun(p, script, draws) ==
    SyncWrapper(p, script, draws, FirstAttempt, p.delay, NoError, RunOf(<<>>, <<>>, NoResult))
AsyncRun(p, script, draws) ==
    AsyncWrapper(p, script, draws, FirstAttempt, p.delay, NoError, RunOf(<<>>, <<>>, NoResult))

RetryNext ==
    \/ AttemptReturns
    \/ AttemptFailsRetryable
    \/ AttemptFailsFatal
    \/ RetryWake
    \/ RaiseAfterLoop

----------------------------------------------------------------------------
(* RequestExecutor: BaseArbitragemAPI._make_request, __aenter__, __aexit__ *)

Caller == 1
Statuses == {200, 404, 503}
Bodies == {"{\"data\": []}", "<html>Bad Gateway</html>"}
TransportFailures ==
    {[exc |-> "ClientConnectorError", msg |-> "Cannot connect to host"],
     [exc |-> "TimeoutError", msg |-> ""]}

\* What the network does with one GET: a response with a status and a body, or
\* a failure of the transport.
HttpResults ==
    [kind : {"response"}, status : Statuses, body : Bodies,
     exc : {"none"}, msg : {""}]
    \cup {[kind |-> "transport", status |-> 0, body |-> "", exc |-> f.exc, msg |-> f.msg] :
            f \in TransportFailures}

NoHttp == [kind |-> "none", status |-> 0, body |-> "", exc |-> "none", msg |-> ""]

JsonLoads_NoneOnError(body) ==
    CASE body = "{\"data\": []}" -> [ok |-> TRUE, data |-> "dict(data=list())", msg |-> ""]
      [] OTHER -> [ok |-> TRUE, data |-> "None", msg |-> ""]

\* response.json(): the parsed payload, or the error it raises.
JsonLoads(body) ==
    CASE body = "{\"data\": []}" -> [ok |-> TRUE, data |-> "dict(data=list())", msg |-> ""]
      [] OTHER -> [ok |-> FALSE, data |-> "None",
                   msg |-> "Attempt to decode JSON with unexpected mimetype"]

\* APIResponse(data, status_code, response_time_ms, success, error_message)
APIResponse(data, status_code, response_time_ms, success, error_message) ==
    [data |-> data, status_code |-> status_code, response_time_ms |-> response_time_ms,
     success |-> success, error_message |-> error_message]

NoResponse == APIResponse("None", 0, 0, FALSE, "None")

Completed(value) == [raised |-> FALSE, exc |-> "none", msg |-> "", value |-> value]
Raises(exc, msg) == [raised |-> TRUE, exc |-> exc, msg |-> msg, value |-> NoResponse]

\* The body of the try: session.get(...), then the branch on response.status.
TryBody(sess, http, response_time) ==
    CASE sess = "none" ->
            Raises("AttributeError", "'NoneType' object has no attribute 'get'")
      [] sess = "closed" -> Raises("RuntimeError", "Session is closed")
      [] http.kind = "transport" -> Raises(http.exc, http.msg)
      [] http.status = 200 ->
            LET parsed == JsonLoads(http.body)
            IN IF parsed.ok
               THEN Completed(APIResponse(parsed.data, http.status, response_time, TRUE, "None"))
               ELSE Raises("ContentTypeError", parsed.msg)
      [] OTHER ->
            Completed(APIResponse("None", http.status, response_time, FALSE, http.body))

CaughtByHandler_ClientErrors(exc) ==
    exc \in {"ClientConnectorError", "ContentTypeError"}

\* except Exception as e: every error the try body raises here is an Exception
CaughtByHandler(exc) ==
    exc \in {"AttributeError", "RuntimeError", "ClientConnectorError", "TimeoutError",
             "ContentTypeError"}

HandlerStatus_Upstream(http) == IF http.kind = "response" THEN http.status ELSE 500

\* status_code=500 in the except branch
HandlerStatus(http) == 500

\* The try statement as a whole: what _make_request returns, or what escapes it.
MakeRequestResult(sess, http, response_time) ==
    LET body == TryBody(sess, http, response_time)
    IN IF body.raised /\ CaughtByHandler(body.exc)
       THEN Completed(APIResponse("None", HandlerStatus(http), response_time, FALSE, body.msg))
       ELSE body

NoExchange == [session |-> "none", http |-> NoHttp, result |-> Completed(NoResponse)]

ExecutorInit ==
    /\ session = "none"
    /\ f_pc = "idle"
    /\ f_start = 0
    /\ f_calls = 0
    /\ f_returned = 0
    /\ f_escaped = 0
    /\ f_last = NoExchange

ExecutorIdle == ExecutorInit

\* __aenter__: self.session = aiohttp.ClientSession(...)
SessionEnter ==
    /\ f_pc = "idle"
    /\ session' = "open"
    /\ UNCHANGED <<f_pc, f_start, f_calls, f_returned, f_escaped, f_last>>
    /\ UNCHANGED <<rl_vars, non_f_vars>>

\* __aexit__: if self.session: await self.session.close()
SessionExit ==
    /\ f_pc = "idle"
    /\ session = "open"
    /\ session' = "closed"
    /\ UNCHANGED <<f_pc, f_start, f_calls, f_returned, f_escaped, f_last>>
    /\ UNCHANGED <<rl_vars, non_f_vars>>

\* _make_request: await self._handle_rate_limit() returns without sleeping;
\* start_time = time.time() and the GET is sent.
FetchSend ==
    /\ f_pc = "idle"
    /\ f_calls < MaxFetches
    /\ HandleRateLimitNoWait(Caller)
    /\ f_calls' = f_calls + 1
    /\ f_start' = now
    /\ f_pc' = "http"
    /\ UNCHANGED <<session, f_returned, f_escaped, f_last>>
    /\ UNCHANGED non_f_vars

\* _make_request: _handle_rate_limit goes to sleep.
FetchWaitForSlot ==
    /\ f_pc = "idle"
    /\ f_calls < MaxFetches
    /\ HandleRateLimitSleep(Caller)
    /\ f_calls' = f_calls + 1
    /\ f_pc' = "acquiring"
    /\ UNCHANGED <<session, f_start, f_returned, f_escaped, f_last>>
    /\ UNCHANGED non_f_vars

\* _handle_rate_limit wakes up and returns; start_time = time.time(), GET sent.
FetchSendAfterWait ==
    /\ f_pc = "acquiring"
    /\ HandleRateLimitWake(Caller)
    /\ f_start' = now
    /\ f_pc' = "http"
    /\ UNCHANGED <<session, f_calls, f_returned, f_escaped, f_last>>
    /\ UNCHANGED non_f_vars

\* The exchange resolves: the try statement runs to its return or raise.
FetchResolve ==
    /\ f_pc = "http"
    /\ \E http \in HttpResults :
        LET res == MakeRequestResult(session, http, (now - f_start) * 1000)
        IN /\ f_last' = [session |-> session, http |-> http, result |-> res]
           /\ f_returned' = IF res.raised THEN f_returned ELSE f_returned + 1
           /\ f_escaped' = IF res.raised THEN f_escaped + 1 ELSE f_escaped
    /\ f_pc' = "idle"
    /\ UNCHANGED <<session, f_start, f_calls>>
    /\ UNCHANGED <<rl_vars, non_f_vars>>

FetchNext ==
    \/ Tick
    \/ SessionEnter
    \/ SessionExit
    \/ FetchSend
    \/ FetchWaitForSlot
    \/ FetchSendAfterWait
    \/ FetchResolve

----------------------------------------------------------------------------
(* ArbitrageAnalyzer: CoinCapCollector.collect_arbitrage_opportunities (from the
   markets on) and _analyze_arbitrage_opportunities *)

\* self.min_volume_threshold, the default of the configuration
MinVolumeThreshold == 100000

\* A field of a market as the adapter hands it over: a number, or the sentinel
\* string "Unknown", on which float() raises ValueError.
Num(v) == [num |-> TRUE, val |-> v]
Unknown == [num |-> FALSE, val |-> 0]

Market(exchangeId, priceUsd, volumeUsd24Hr) ==
    [exchangeId |-> exchangeId, priceUsd |-> priceUsd, volumeUsd24Hr |-> volumeUsd24Hr]

\* The markets the inputs are drawn from: two prices on each of two exchanges, a
\* cheap third exchange with and without liquidity, an illiquid market, markets
\* priced 0 or below, and markets whose price or volume is the sentinel.
MarketPool ==
    {Market(e, Num(p), Num(200000)) : e \in {"X", "Y"}, p \in {100, 101}}
    \cup {Market("Z", Num(95), Num(v)) : v \in {50, 200000}}
    \cup {Market("X", Num(100), Num(50)),
          Market("Y", Num(0), Num(200000)),
          Market("X", Num(0), Num(200000)),
          Market("X", Num(-1), Num(200000)),
          Market("Z", Unknown, Num(200000)),
          Market("Y", Num(100), Unknown)}

\* self.min_spread_percentage, in hundredths of a percent
MinSpreads == {0, 50, 200}

RECURSIVE SeqsUpTo(_, _)
SeqsUpTo(S, n) ==
    IF n = 0 THEN {<<>>}
    ELSE LET shorter == SeqsUpTo(S, n - 1)
         IN shorter \cup {Append(q, x) : q \in {r \in shorter : Len(r) = n - 1}, x \in S}

IsLiquid_Any(m, min_volume) == TRUE

\* float(m.get('volumeUsd24Hr', 0)) >= self.min_volume_threshold
IsLiquid(m, min_volume) == m.volumeUsd24Hr.val >= min_volume

SortedByPrice_Desc(ms) ==
    LET n == Len(ms)
        Rank(i) == 1 + Cardinality({j \in 1..n :
                        \/ ms[j].priceUsd.val > ms[i].priceUsd.val
                        \/ ms[j].priceUsd.val = ms[i].priceUsd.val /\ j < i})
    IN [p \in 1..n |-> ms[CHOOSE i \in 1..n : Rank(i) = p]]

\* sorted(markets, key=lambda x: float(x.get('priceUsd', 0))): stable, ascending
SortedByPrice(ms) ==
    LET n == Len(ms)
        Rank(i) == 1 + Cardinality({j \in 1..n :
                        \/ ms[j].priceUsd.val < ms[i].priceUsd.val
                        \/ ms[j].priceUsd.val = ms[i].priceUsd.val /\ j < i})
    IN [p \in 1..n |-> ms[CHOOSE i \in 1..n : Rank(i) = p]]

LoopPairs_Adjacent(n) == [k \in 1..(n - 1) |-> <<k, k + 1>>]

\* for i, buy_market in enumerate(markets_sorted[:-1]):
\*     for sell_market in markets_sorted[i+1:]:
\* the pairs of positions in the order the loops visit them
LoopPairs(n) ==
    LET P == {q \in (1..n) \X (1..n) : q[1] < q[2]}
        Rank(q) == 1 + Cardinality({r \in P :
                        \/ r[1] < q[1]
                        \/ r[1] = q[1] /\ r[2] < q[2]})
    IN [k \in 1..Cardinality(P) |-> CHOOSE q \in P : Rank(q) = k]

\* ArbitrageData(...): spread_percentage is spread_num / spread_den, and
\* profit_potential is profit_x1000 / 1000.
ArbitrageData(buy_market, sell_market) ==
    LET buy_price == buy_market.priceUsd.val
        sell_price == sell_market.priceUsd.val
        buy_volume == buy_market.volumeUsd24Hr.val
        sell_volume == sell_market.volumeUsd24Hr.val
    IN [buy_exchange |-> buy_market.exchangeId,
        sell_exchange |-> sell_market.exchangeId,
        buy_price |-> buy_price,
        sell_price |-> sell_price,
        spread_num |-> (sell_price - buy_price) * 100,
        spread_den |-> buy_price,
        buy_volume_24h |-> buy_volume,
        sell_volume_24h |-> sell_volume,
        profit_x1000 |-> (sell_price - buy_price) * Min(buy_volume, sell_volume)]

SkipsPair_SellOnly(buy_market, sell_market) == sell_market.priceUsd.val <= 0

\* if buy_price <= 0 or sell_price <= 0: continue
SkipsPair(buy_market, sell_market) ==
    buy_market.priceUsd.val <= 0 \/ sell_market.priceUsd.val <= 0

SpreadAtLeast_Off(buy_market, sell_market, min_spread) == TRUE

\* if spread_percentage >= self.min_spread_percentage (in hundredths of a percent)
SpreadAtLeast(buy_market, sell_market, min_spread) ==
    (sell_market.priceUsd.val - buy_market.priceUsd.val) * 100 * 100
        >= min_spread * buy_market.priceUsd.val

SortedBySpreadDesc_Unsorted(ops) == ops

\* sorted(opportunities, key=lambda x: x.spread_percentage, reverse=True): stable
SortedBySpreadDesc(ops) ==
    LET n == Len(ops)
        Greater(a, b) == a.spread_num * b.spread_den > b.spread_num * a.spread_den
        Equal(a, b) == a.spread_num * b.spread_den = b.spread_num * a.spread_den
        Rank(i) == 1 + Cardinality({j \in 1..n :
                        \/ Greater(ops[j], ops[i])
                        \/ Equal(ops[j], ops[i]) /\ j < i})
    IN [p \in 1..n |-> ops[CHOOSE i \in 1..n : Rank(i) = p]]

\* _analyze_arbitrage_opportunities(markets, symbol), every price being a number
AnalyzeArbitrageOpportunities(markets, min_spread) ==
    LET markets_sorted == SortedByPrice(markets)
        pairs == LoopPairs(Len(markets_sorted))
        Kept(k) ==
            LET b == markets_sorted[pairs[k][1]]
                s == markets_sorted[pairs[k][2]]
            IN ~SkipsPair(b, s) /\ SpreadAtLeast(b, s, min_spread)
        kept == SelectSeq([k \in 1..Len(pairs) |-> k], Kept)
        opportunities ==
            [k \in 1..Len(kept) |->
                ArbitrageData(markets_sorted[pairs[kept[k]][1]],
                              markets_sorted[pairs[kept[k]][2]])]
    IN SortedBySpreadDesc(opportunities)

NumericVolume(m) == m.volumeUsd24Hr.num
NumericPrice(m) == m.priceUsd.num

\* collect_arbitrage_opportunities from `if len(markets) < 2` to its return: the
\* list returned and whether the except branch counted an error.  float() raises
\* on the first sentinel it meets, in the filter or in the sort key.
CollectFromMarkets(markets, min_spread) ==
    IF Len(markets) < 2
    THEN [result |-> <<>>, error |-> FALSE]
    ELSE IF \E i \in 1..Len(markets) : ~NumericVolume(markets[i])
    THEN [result |-> <<>>, error |-> TRUE]
    ELSE LET Liquid(m) == IsLiquid(m, MinVolumeThreshold)
             liquid_markets == SelectSeq(markets, Liquid)
         IN IF Len(liquid_markets) < 2
            THEN [result |-> <<>>, error |-> FALSE]
            ELSE IF \E i \in 1..Len(liquid_markets) : ~NumericPrice(liquid_markets[i])
            THEN [result |-> <<>>, error |-> TRUE]
            ELSE [result |-> AnalyzeArbitrageOpportunities(liquid_markets, min_spread),
                  error |-> FALSE]

AnalyzerIdle ==
    /\ a_markets = <<>>
    /\ min_spread_percentage = 0
    /\ a_pc = "done"
    /\ a_result = <<>>
    /\ errors_count = 0

AnalyzerInit ==
    /\ a_markets \in SeqsUpTo(MarketPool, MaxMarkets)
    /\ min_spread_percentage \in MinSpreads
    /\ a_pc = "ready"
    /\ a_result = <<>>
    /\ errors_count = 0

\* The analysis runs on the markets.
CollectOpportunities ==
    /\ a_pc = "ready"
    /\ LET out == CollectFromMarkets(a_markets, min_spread_percentage)
       IN /\ a_result' = out.result
          /\ errors_count' = IF out.error THEN errors_count + 1 ELSE errors_count
    /\ a_pc' = "done"
    /\ UNCHANGED <<a_markets, min_spread_percentage>>
    /\ UNCHANGED non_a_vars

AnalyzerNext == CollectOpportunities

----------------------------------------------------------------------------
(* TTLCache: cache_with_ttl as the collector applies it.  The decorator is
   imported from core.decorators and has no definition in decorators.py: the
   entry, its expiry and the lookup follow the contract of get_or_compute. *)

\* @cache_with_ttl(ttl=120) on collect_exchanges_data
ExchangesTtl == 120
\* @cache_with_ttl(ttl=60) on collect_arbitrage_opportunities
OpportunitiesTtl == 60

\* self.config.get('target_symbols', ['bitcoin', 'ethereum', 'cardano'])
DefaultSymbols == <<"bitcoin", "ethereum", "cardano">>
\* The configured target lists: the default and its prefixes, the empty one included.
TargetLists == {SubSeq(DefaultSymbols, 1, n) : n \in 0..Len(DefaultSymbols)}

\* self.config.get('min_spread_percentage', 0.1), in hundredths of a percent
DefaultMinSpread == 10

\* The key of a cached call: the operation and its arguments.
ExchangesKey == "exchanges"
CacheKeys == {ExchangesKey} \cup {DefaultSymbols[i] : i \in 1..Len(DefaultSymbols)}
TtlOf(key) == IF key = ExchangesKey THEN ExchangesTtl ELSE OpportunitiesTtl

\* An entry: the value and expires_at = now + ttl; stored_at is kept for the
\* properties only.
NoEntry == [stored |-> FALSE, value |-> <<>>, expires_at |-> 0, stored_at |-> 0]
Entry(value, t, ttl) ==
    [stored |-> TRUE, value |-> value, expires_at |-> t + ttl, stored_at |-> t]

IsLive_Forever(entry, t) == entry.stored

\* A live (non-expired) entry exists: expiry is checked at lookup time.
IsLive(entry, t) == entry.stored /\ t < entry.expires_at

----------------------------------------------------------------------------
(* Collector: CoinCapCollector.collect_exchanges_data,
   collect_arbitrage_opportunities and collect_comprehensive_data, under
   performance_monitor *)

\* What an adapter call does: it raises, or it returns a list.
AdapterRaises == [raised |-> TRUE, value |-> <<>>]
AdapterReturns(v) == [raised |-> FALSE, value |-> v]
NoAdapterCall == [raised |-> FALSE, value |-> <<"not called">>]

\* api.get_exchanges_data(): the exchanges sorted by volume, here their ids
ExchangeListings == {<<"binance", "kraken">>, <<"binance">>}

\* The markets of an asset: one opportunity in the first list, three in the second.
MarketBatches ==
    {<<Market("X", Num(100), Num(200000)), Market("Y", Num(101), Num(200000))>>,
     <<Market("Z", Num(95), Num(200000)), Market("X", Num(100), Num(200000)),
       Market("Y", Num(101), Num(200000))>>}

AdapterOutcomes(key) ==
    IF key = ExchangesKey
    THEN {AdapterRaises} \cup {AdapterReturns(x) : x \in ExchangeListings}
    ELSE {AdapterRaises} \cup {AdapterReturns(m) : m \in MarketBatches}

\* collect_arbitrage_opportunities reaches line 120, which assigns
\* self.metrics.opportunities_found
ReachesAnalysis(markets) ==
    /\ Len(markets) >= 2
    /\ \A i \in 1..Len(markets) : NumericVolume(markets[i])
    /\ LET Liquid(m) == IsLiquid(m, MinVolumeThreshold)
           liquid_markets == SelectSeq(markets, Liquid)
       IN /\ Len(liquid_markets) >= 2
          /\ \A i \in 1..Len(liquid_markets) : NumericPrice(liquid_markets[i])

\* The body of a cached operation from the adapter call on: the list it
\* returns, whether an except branch counted an error, and the value it assigns
\* to its metric (exchanges_collected or opportunities_found) if it assigns one.
BodyOfExchanges(o) ==
    IF o.raised
    THEN [value |-> <<>>, error |-> TRUE, assigns |-> FALSE, count |-> 0]
    ELSE [value |-> o.value, error |-> FALSE, assigns |-> TRUE, count |-> Len(o.value)]

BodyOfOpportunities(o, min_spread) ==
    IF o.raised
    THEN [value |-> <<>>, error |-> TRUE, assigns |-> FALSE, count |-> 0]
    ELSE LET out == CollectFromMarkets(o.value, min_spread)
         IN [value |-> out.result, error |-> out.error,
             assigns |-> ReachesAnalysis(o.value), count |-> Len(out.result)]

Body(key, o) ==
    IF key = ExchangesKey THEN BodyOfExchanges(o)
    ELSE BodyOfOpportunities(o, min_spread_percentage)

\* The metrics after the body b of the operation of `key` has run.
CountBody(key, b) ==
    /\ errors_count' = IF b.error THEN errors_count + 1 ELSE errors_count
    /\ exchanges_collected' =
        IF key = ExchangesKey /\ b.assigns THEN b.count ELSE exchanges_collected
    /\ opportunities_found' =
        IF key # ExchangesKey /\ b.assigns THEN b.count ELSE opportunities_found

\* @retry_on_failure(max_attempts=3) on collect_exchanges_data
CollectorRetryBudget == 3

\* The operations that carry a retry decorator: collect_exchanges_data does,
\* collect_arbitrage_opportunities does not.
HasRetry(key) == key = ExchangesKey

\* Whether the body b hands an error to the wrapper around it: both bodies end
\* in `except Exception as e: ... return []`.
RaisesToWrapper(b) == FALSE

\* How often the adapter fetch of `key` is invoked when its body ends as b: the
\* retry wrapper invokes the body again only after the body raised.
FetchAttempts(key, b) ==
    IF HasRetry(key) /\ RaisesToWrapper(b) THEN CollectorRetryBudget ELSE 1

\* What a call gives its caller.
NoOutcome == [kind |-> "none", value |-> <<>>]
Returns(v) == [kind |-> "returned", value |-> v]
RaisesError == [kind |-> "raised", value |-> <<>>]

\* _save_performance_metric raises: file.write is handed the dict
\* _performance_metrics (TypeError), if open() of the D:\ path has not raised before.
SavePerformanceMetricRaises == TRUE

\* performance_monitor.async_wrapper around a call that gave `outcome`: the
\* metric is saved in the try block and again in the except block, then `raise`.
Monitored(outcome) ==
    IF SavePerformanceMetricRaises THEN RaisesError ELSE outcome

\* asdict(self.metrics)
NoMetrics ==
    [taken |-> FALSE, exchanges_collected |-> 0, opportunities_found |-> 0,
     api_calls_made |-> 0, cache_hits |-> 0, errors_count |-> 0]
MetricsSnapshot(errors) ==
    [taken |-> TRUE, exchanges_collected |-> exchanges_collected,
     opportunities_found |-> opportunities_found, api_calls_made |-> api_calls_made,
     cache_hits |-> cache_hits, errors_count |-> errors]

\* results = {'exchanges': [], 'arbitrage_opportunities': {}, 'metadata': {...}}
EmptyResults ==
    [exchanges |-> <<>>, arbitrage_opportunities |-> <<>>, metrics |-> NoMetrics]

NoTask == [pc |-> "none", result |-> NoOutcome]
\* A direct call: its key, when it was made, how often it invoked the body,
\* what it returned, whether the body ended in an except branch, the entry it
\* found, and the same of the call before it.
FirstCall == [key |-> "none", at |-> 0, invocations |-> 0, failed |-> FALSE]
NoCall == [key |-> "none", at |-> 0, invocations |-> 0, value |-> <<>>,
           failed |-> FALSE, before |-> NoEntry, previous |-> FirstCall]
CallRecord(k, invocations, value, failed) ==
    [key |-> k, at |-> now, invocations |-> invocations, value |-> value,
     failed |-> failed, before |-> cache[k],
     previous |-> [key |-> k_call.key, at |-> k_call.at,
                   invocations |-> k_call.invocations, failed |-> k_call.failed]]
\* What a run did: the bodies it ran, the except branches it took, the calls
\* answered by the cache, and per operation the session of the adapter its
\* body was scoped to and the number of times its adapter fetch was invoked.
NoEvents ==
    [calls |-> 0, errors |-> 0, hits |-> 0, sessions |-> [k \in CacheKeys |-> "none"],
     fetches |-> [k \in CacheKeys |-> 0]]

\* async with CoinCapAPI(self.api_key) as api: __aenter__ on a new adapter,
\* self.session = aiohttp.ClientSession(...)
AEnter == "open"

AExit_KeepsOpen(sess) == sess

\* Leaving the async with block, by return or by exception: __aexit__,
\* if self.session: await self.session.close()
AExit(sess) == IF sess = "open" THEN "closed" ELSE sess

\* The sessions after the coroutines of `keys` have started: a body that runs
\* has entered its scope.
SessionsEntered(sessions, misses) ==
    [k \in CacheKeys |-> IF k \in misses THEN AEnter ELSE sessions[k]]

\* __init__ with the target list ts
CollectorConstructed(ts) ==
    /\ target_symbols = ts
    /\ api_calls_made = 0
    /\ opportunities_found = 0
    /\ exchanges_collected = 0
    /\ cache_hits = 0
    /\ cache = [k \in CacheKeys |-> NoEntry]
    /\ k_call = NoCall
    /\ c_pc = "idle"
    /\ c_runs = 0
    /\ c_tasks = [k \in CacheKeys |-> NoTask]
    /\ c_results = EmptyResults
    /\ c_outcome = NoOutcome
    /\ c_run_events = NoEvents
    /\ c_adapter = [k \in CacheKeys |-> NoAdapterCall]

CollectorIdle == CollectorConstructed(DefaultSymbols)

CollectorInit == \E ts \in TargetLists : CollectorConstructed(ts)

\* The analysis settings and the error counter of a collector just constructed.
AnalyzerConfigured ==
    /\ a_markets = <<>>
    /\ min_spread_percentage = DefaultMinSpread
    /\ a_pc = "done"
    /\ a_result = <<>>
    /\ errors_count = 0

\* The operations called directly: one of each ttl.
DirectKeys == {ExchangesKey, DefaultSymbols[1]}

\* A direct call of a cached operation finds a live entry: the value is
\* returned and the body does not run.
CacheHit(k) ==
    /\ c_pc = "idle"
    /\ IsLive(cache[k], now)
    /\ UNCHANGED <<target_symbols, metric_vars, cache, run_vars, errors_count>>
    /\ k_call' = CallRecord(k, api_calls_made' - api_calls_made, cache[k].value, FALSE)
    /\ UNCHANGED non_c_vars

\* A direct call of a cached operation finds no live entry: the body runs and
\* what it returns is stored.
CacheMiss(k) ==
    /\ c_pc = "idle"
    /\ ~IsLive(cache[k], now)
    /\ api_calls_made < MaxCachedCalls
    /\ api_calls_made' = api_calls_made + 1
    /\ \E o \in AdapterOutcomes(k) :
        LET b == Body(k, o)
        IN /\ CountBody(k, b)
           /\ cache' = [cache EXCEPT ![k] = Entry(b.value, now, TtlOf(k))]
           /\ k_call' = CallRecord(k, api_calls_made' - api_calls_made, b.value, b.error)
    /\ UNCHANGED <<target_symbols, cache_hits, run_vars>>
    /\ UNCHANGED non_c_vars

CacheNext ==
    \/ Tick
    \/ \E k \in DirectKeys : CacheHit(k)
    \/ \E k \in DirectKeys : CacheMiss(k)

\* asyncio.gather starts the coroutines of `keys`: each runs to its first
\* suspension.  With a live entry the cached value comes back through
\* performance_monitor at once; without one the body counts an API call and
\* waits for the adapter.
Launched(keys) ==
    [k \in CacheKeys |->
        IF k \notin keys THEN NoTask
        ELSE IF IsLive(cache[k], now)
        THEN [pc |-> "done", result |-> Monitored(Returns(cache[k].value))]
        ELSE [pc |-> "waiting", result |-> NoOutcome]]

Misses(keys) == {k \in keys : ~IsLive(cache[k], now)}

CallsCounted_LostUpdate(started) == IF started = {} THEN 0 ELSE 1

\* self.metrics.api_calls_made += 1 in each body that starts: the coroutines
\* run one after the other up to their first await, and there is no await
\* between the read and the write of the counter.
CallsCounted(started) == Cardinality(started)

Range(q) == {q[i] : i \in 1..Len(q)}

\* collect_comprehensive_data with an empty target list: self.target_symbols[0]
\* raises IndexError, the outer except counts it and returns results.
StartRunNoTargets ==
    /\ c_pc = "idle"
    /\ c_runs < MaxRuns
    /\ target_symbols = <<>>
    /\ c_runs' = c_runs + 1
    /\ errors_count' = errors_count + 1
    /\ c_run_events' = [NoEvents EXCEPT !.errors = 1]
    /\ c_results' = EmptyResults
    /\ c_outcome' = Monitored(Returns(EmptyResults))
    /\ c_adapter' = [k \in CacheKeys |-> NoAdapterCall]
    /\ UNCHANGED <<target_symbols, metric_vars, cache, k_call, c_pc, c_tasks>>
    /\ UNCHANGED non_c_vars

\* collect_comprehensive_data up to the first gather: the exchange listing and
\* the first target asset.
StartRun ==
    /\ c_pc = "idle"
    /\ c_runs < MaxRuns
    /\ target_symbols # <<>>
    /\ c_runs' = c_runs + 1
    /\ LET keys == {ExchangesKey, target_symbols[1]}
       IN /\ c_tasks' = Launched(keys)
          /\ api_calls_made' = api_calls_made + CallsCounted(Misses(keys))
          /\ c_run_events' = [calls |-> Cardinality(Misses(keys)), errors |-> 0,
                              hits |-> Cardinality(keys \ Misses(keys)),
                              sessions |-> SessionsEntered(NoEvents.sessions, Misses(keys)),
                              fetches |-> NoEvents.fetches]
    /\ c_results' = EmptyResults
    /\ c_outcome' = NoOutcome
    /\ c_adapter' = [k \in CacheKeys |-> NoAdapterCall]
    /\ c_pc' = "batch1"
    /\ UNCHANGED <<target_symbols, opportunities_found, exchanges_collected,
                   cache_hits, cache, k_call, errors_count>>
    /\ UNCHANGED non_c_vars

\* The adapter call of a waiting coroutine resolves: the rest of the body runs,
\* the list it returns is stored in the cache and performance_monitor hands on
\* what it makes of it.
ResolveTask(k) ==
    /\ c_tasks[k].pc = "waiting"
    /\ \E o \in AdapterOutcomes(k) :
        LET b == Body(k, o)
        IN /\ CountBody(k, b)
           /\ cache' = [cache EXCEPT ![k] = Entry(b.value, now, TtlOf(k))]
           /\ c_tasks' = [c_tasks EXCEPT ![k] =
                            [pc |-> "done", result |-> Monitored(Returns(b.value))]]
           /\ c_adapter' = [c_adapter EXCEPT ![k] = o]
           /\ c_run_events' = [c_run_events EXCEPT
                                 !.errors = IF b.error THEN @ + 1 ELSE @,
                                 !.sessions[k] = AExit(@),
                                 !.fetches[k] = FetchAttempts(k, b)]
    /\ UNCHANGED <<target_symbols, api_calls_made, cache_hits, k_call,
                   c_pc, c_runs, c_results, c_outcome>>
    /\ UNCHANGED non_c_vars

GatherDone_AnyOne == \E k \in CacheKeys : c_tasks[k].pc = "done"

\* await asyncio.gather(*tasks, return_exceptions=True) returns: every
\* coroutine of the batch has ended.
GatherDone == \A k \in CacheKeys : c_tasks[k].pc # "waiting"

\* if isinstance(x, list): results[...] = x, for the coroutines of `symbols`
WithOpportunities(opps, symbols) ==
    LET listed == {k \in symbols : c_tasks[k].result.kind = "returned"}
    IN [k \in (DOMAIN opps) \cup listed |->
            IF k \in listed THEN c_tasks[k].result.value ELSE opps[k]]

ResultsAfterFirst ==
    [exchanges |-> IF c_tasks[ExchangesKey].result.kind = "returned"
                   THEN c_tasks[ExchangesKey].result.value
                   ELSE c_results.exchanges,
     arbitrage_opportunities |->
        WithOpportunities(c_results.arbitrage_opportunities, {target_symbols[1]}),
     metrics |-> NoMetrics]

\* The first gather is over and there are remaining symbols: their coroutines
\* are gathered.
GatherRemaining ==
    /\ c_pc = "batch1"
    /\ GatherDone
    /\ Tail(target_symbols) # <<>>
    /\ c_results' = ResultsAfterFirst
    /\ LET keys == Range(Tail(target_symbols))
       IN /\ c_tasks' = Launched(keys)
          /\ api_calls_made' = api_calls_made + CallsCounted(Misses(keys))
          /\ c_run_events' = [c_run_events EXCEPT
                                !.calls = @ + Cardinality(Misses(keys)),
                                !.hits = @ + Cardinality(keys \ Misses(keys)),
                                !.sessions = SessionsEntered(@, Misses(keys))]
    /\ c_pc' = "batch2"
    /\ UNCHANGED <<target_symbols, opportunities_found, exchanges_collected,
                   cache_hits, cache, k_call, c_runs, c_outcome, c_adapter,
                   errors_count>>
    /\ UNCHANGED non_c_vars

\* The first gather is over and there is no remaining symbol: the metrics are
\* put into results, and collect_comprehensive_data returns through
\* performance_monitor.
FinishAfterFirst ==
    /\ c_pc = "batch1"
    /\ GatherDone
    /\ Tail(target_symbols) = <<>>
    /\ LET results == [ResultsAfterFirst EXCEPT !.metrics = MetricsSnapshot(errors_count)]
       IN /\ c_results' = results
          /\ c_outcome' = Monitored(Returns(results))
    /\ c_tasks' = [k \in CacheKeys |-> NoTask]
    /\ c_pc' = "idle"
    /\ UNCHANGED <<target_symbols, metric_vars, cache, k_call, c_runs,
                   c_run_events, c_adapter, errors_count>>
    /\ UNCHANGED non_c_vars

\* The second gather is over: as above.
FinishRun ==
    /\ c_pc = "batch2"
    /\ GatherDone
    /\ LET results ==
            [c_results EXCEPT
                !.arbitrage_opportunities =
                    WithOpportunities(@, Range(Tail(target_symbols))),
                !.metrics = MetricsSnapshot(errors_count)]
       IN /\ c_results' = results
          /\ c_outcome' = Monitored(Returns(results))
    /\ c_tasks' = [k \in CacheKeys |-> NoTask]
    /\ c_pc' = "idle"
    /\ UNCHANGED <<target_symbols, metric_vars, cache, k_call, c_runs,
                   c_run_events, c_adapter, errors_count>>
    /\ UNCHANGED non_c_vars

\* Time passes between two runs.
Pause ==
    /\ c_pc = "idle"
    /\ c_runs >= 1
    /\ Tick

CollectorNext ==
    \/ StartRunNoTargets
    \/ StartRun
    \/ \E k \in CacheKeys : ResolveTask(k)
    \/ GatherRemaining
    \/ FinishAfterFirst
    \/ FinishRun
    \/ Pause

----------------------------------------------------------------------------
(* SourceAdapter: CoinCapAPI.get_assets_prices, get_assets_per_exhange,
   get_exchanges_data and NewsAPI.get_news, from the APIResponse on *)

\* A field of a record of the payload: absent, a number, or a string that
\* float() rejects.
Absent == [given |-> FALSE, num |-> FALSE, val |-> 0]
Given(v) == [given |-> TRUE, num |-> TRUE, val |-> v]
Garbled == [given |-> TRUE, num |-> FALSE, val |-> 0]

RawRecord(exchangeId, priceUsd, volumeUsd24Hr) ==
    [exchangeId |-> exchangeId, priceUsd |-> priceUsd, volumeUsd24Hr |-> volumeUsd24Hr]

RawPool ==
    {RawRecord("X", Given(100), Given(200000)),
     RawRecord("Y", Given(101), Given(300000)),
     RawRecord("Z", Absent, Given(200000)),
     RawRecord("Z", Given(95), Garbled)}

\* response.data: None, {}, a dict without the key of the records, or a dict
\* with the records under it.
NonePayload == [kind |-> "None", records |-> <<>>]
EmptyDict == [kind |-> "empty dict", records |-> <<>>]
DictWithoutRecords == [kind |-> "dict without records", records |-> <<>>]
DataDict(records) == [kind |-> "dict", records |-> records]

\* What _make_request hands the adapter method: success with a parsed payload,
\* or success=False with data=None.
AdapterResponses ==
    {APIResponse(p, 200, 0, TRUE, "None") :
        p \in {EmptyDict, DictWithoutRecords}
              \cup {DataDict(r) : r \in SeqsUpTo(RawPool, MaxRecords)}}
    \cup {APIResponse(NonePayload, st, 0, FALSE, "error") : st \in {404, 500}}

AdapterMethods ==
    {"get_assets_prices", "get_assets_per_exhange", "get_exchanges_data", "get_news"}

\* `response.success and response.data`: a dict is true unless it is empty
SuccessWithData(response) ==
    response.success /\ response.data.kind \in {"dict", "dict without records"}

\* coins.get("priceUsd", "Unknown"): the field as it is, or the sentinel
OrUnknown(field) == IF field.given /\ field.num THEN Num(field.val) ELSE Unknown

\* The dict get_assets_per_exhange appends for a record
NormalisedMarket(raw) ==
    Market(raw.exchangeId, OrUnknown(raw.priceUsd), OrUnknown(raw.volumeUsd24Hr))

\* get_assets_per_exhange: fields are copied without conversion
GetAssetsPerExchange(response) ==
    IF SuccessWithData(response) /\ response.data.kind = "dict"
    THEN AdapterReturns([i \in 1..Len(response.data.records) |->
                            NormalisedMarket(response.data.records[i])])
    ELSE AdapterRaises

\* float(exchange.get('volumeUsd', ... 0) or 0): an absent field counts as 0
VolumeOrZero(raw) == IF raw.volumeUsd24Hr.given THEN raw.volumeUsd24Hr.val ELSE 0

\* sorted(results, key=lambda x: x['volumeUsd'], reverse=True): stable
SortedByVolumeDesc(xs) ==
    LET n == Len(xs)
        Rank(i) == 1 + Cardinality({j \in 1..n :
                        \/ xs[j].volumeUsd > xs[i].volumeUsd
                        \/ xs[j].volumeUsd = xs[i].volumeUsd /\ j < i})
    IN [p \in 1..n |-> xs[CHOOSE i \in 1..n : Rank(i) = p]]

\* get_exchanges_data: float() of a volume that is not a number raises, and the
\* except branch raises Exception
GetExchangesData(response) ==
    IF /\ SuccessWithData(response)
       /\ response.data.kind = "dict"
       /\ \A i \in 1..Len(response.data.records) :
            response.data.records[i].volumeUsd24Hr.given
                => response.data.records[i].volumeUsd24Hr.num
    THEN AdapterReturns(SortedByVolumeDesc(
            [i \in 1..Len(response.data.records) |->
                [id |-> response.data.records[i].exchangeId,
                 volumeUsd |-> VolumeOrZero(response.data.records[i])]]))
    ELSE AdapterRaises

\* get_assets_prices: PriceData(...) is called with price_change_24h and
\* market_cap, which the dataclass does not have: TypeError for the first record
GetAssetsPrices(response) ==
    IF /\ SuccessWithData(response)
       /\ response.data.kind = "dict"
       /\ response.data.records = <<>>
    THEN AdapterReturns(<<>>)
    ELSE AdapterRaises

\* NewsAPI.get_news: [] when not success, else the articles of
\* response.data.get('articles', [])
GetNews(response) ==
    IF ~response.success THEN AdapterReturns(<<>>)
    ELSE AdapterReturns([i \in 1..Len(response.data.records) |->
                            [title |-> response.data.records[i].exchangeId]])

FetchOutcome(method, response) ==
    CASE method = "get_assets_prices" -> GetAssetsPrices(response)
      [] method = "get_assets_per_exhange" -> GetAssetsPerExchange(response)
      [] method = "get_exchanges_data" -> GetExchangesData(response)
      [] OTHER -> GetNews(response)

AdapterIdle ==
    /\ ad_method = "get_news"
    /\ ad_response = APIResponse(NonePayload, 500, 0, FALSE, "error")
    /\ ad_pc = "done"
    /\ ad_outcome = AdapterReturns(<<>>)

AdapterInit ==
    /\ ad_method \in AdapterMethods
    /\ ad_response \in AdapterResponses
    /\ ad_pc = "ready"
    /\ ad_outcome = NoAdapterCall

\* The adapter method runs on the response.
AdapterFetch ==
    /\ ad_pc = "ready"
    /\ ad_outcome' = FetchOutcome(ad_method, ad_response)
    /\ ad_pc' = "done"
    /\ UNCHANGED <<ad_method, ad_response>>
    /\ UNCHANGED non_ad_vars

AdapterNext == AdapterFetch

----------------------------------------------------------------------------
(* Specifications *)

InitLimiter ==
    RateLimiterInit /\ RetryIdle /\ ExecutorIdle /\ AnalyzerIdle /\ CollectorIdle /\ AdapterIdle

SpecLimiter == InitLimiter /\ [][LimiterNext]_vars

SpecSharedLimiter == InitLimiter /\ [][SharedLimiterNext]_vars

\* The clock advances, and the event loop resumes a task whose sleep is due.
SpecLimiterFair ==
    /\ InitLimiter
    /\ [][LimiterNext]_vars
    /\ WF_vars(Tick)
    /\ \A t \in SingleCaller : WF_vars(AcquireWake(t))

InitRetry ==
    RetryInit /\ RateLimiterIdle /\ ExecutorIdle /\ AnalyzerIdle /\ CollectorIdle /\ AdapterIdle

SpecRetry == InitRetry /\ [][RetryNext]_vars

InitPresets ==
    PresetInit /\ RateLimiterIdle /\ ExecutorIdle /\ AnalyzerIdle /\ CollectorIdle /\ AdapterIdle

SpecPresets == InitPresets /\ [][RetryNext]_vars

InitFetch ==
    RateLimiterInit /\ ExecutorInit /\ RetryIdle /\ AnalyzerIdle /\ CollectorIdle /\ AdapterIdle

SpecFetch == InitFetch /\ [][FetchNext]_vars

InitAnalyzer ==
    AnalyzerInit /\ RateLimiterIdle /\ RetryIdle /\ ExecutorIdle /\ CollectorIdle /\ AdapterIdle

SpecAnalyzer == InitAnalyzer /\ [][AnalyzerNext]_vars

InitCache ==
    CollectorIdle /\ AnalyzerConfigured /\ RateLimiterIdle /\ RetryIdle /\ ExecutorIdle /\ AdapterIdle

SpecCache == InitCache /\ [][CacheNext]_vars

InitCollector ==
    CollectorInit /\ AnalyzerConfigured /\ RateLimiterIdle /\ RetryIdle /\ ExecutorIdle /\ AdapterIdle

SpecCollector == InitCollector /\ [][CollectorNext]_vars

InitAdapter ==
    AdapterInit /\ RateLimiterIdle /\ RetryIdle /\ ExecutorIdle /\ AnalyzerIdle
        /\ CollectorIdle

SpecAdapter == InitAdapter /\ [][AdapterNext]_vars

----------------------------------------------------------------------------
(* RateLimiter claims *)

LogIdx == 1..Len(rl_log)

\* Acquires issued in window `win` that returned before the i-th return.
IssuedBefore(i, win) == Cardinality({j \in 1..(i - 1) : rl_log[j].iw = win})

\* Acquires that returned in window `win` before the i-th return: those issued
\* in it without sleeping, and the one whose wake-up opened it.
AdmittedBefore(i, win) == Cardinality({j \in 1..(i - 1) : rl_log[j].w = win})

\* C1 (as stated): of the acquires issued inside one window, the first N return
\* without suspending and the (N+1)th suspends until window-start + 60.
C1_Original ==
    \A i \in LogIdx :
        LET r == rl_log[i]
            k == IssuedBefore(i, r.iw)
        IN /\ k < rate_limit => ~r.susp
           /\ k = rate_limit => r.susp /\ r.ret >= r.iw + Window

\* C1 (amended): an acquire returns without suspending exactly when fewer than N
\* acquires have already returned in the current window, where the acquire whose
\* wake-up opened the window counts as the first of them; otherwise it suspends
\* and returns no earlier than 60 s after the start of the window it was issued in.
C1_Amended ==
    \A i \in LogIdx :
        LET r == rl_log[i]
            k == AdmittedBefore(i, r.iw)
        IN /\ k < rate_limit => ~r.susp /\ r.ret = r.issued
           /\ k >= rate_limit => r.susp /\ r.ret >= r.iw + Window

\* A window opened by a suspended acquire, in which a later acquire suspended too,
\* after an acquire that passed as the N-th of its window.
C1_Witness ==
    /\ \E i \in LogIdx :
        ~rl_log[i].susp /\ AdmittedBefore(i, rl_log[i].iw) = rate_limit - 1
    /\ \E i, j \in LogIdx :
        /\ i < j
        /\ rl_log[i].susp
        /\ rl_log[j].susp
        /\ rl_log[j].iw = rl_log[i].w

\* C2 (as stated): no interval of 60 s, wherever it starts, holds more than N
\* returned acquires (N+1 consecutive returns span at least 60 s).
C2_Original ==
    \A i \in LogIdx :
        i + rate_limit \in LogIdx =>
            rl_log[i + rate_limit].ret - rl_log[i].ret >= Window

\* C2 (amended): for N >= 1, at most N acquires return in any one window of the
\* limiter, each within 60 s of the window's start; an interval of 60 s that is
\* not aligned to a window start holds at most 2N returns.
C2_Amended ==
    /\ \A i \in LogIdx :
        /\ Cardinality({j \in LogIdx : rl_log[j].w = rl_log[i].w}) <= rate_limit
        /\ rl_log[i].w <= rl_log[i].ret
        /\ rl_log[i].ret < rl_log[i].w + Window
    /\ \A i \in LogIdx :
        i + 2 * rate_limit \in LogIdx =>
            rl_log[i + 2 * rate_limit].ret - rl_log[i].ret > Window

\* 2N acquires returned less than 60 s apart, N in each of two adjacent windows.
C2_Witness ==
    \E i \in LogIdx :
        LET j == i + 2 * rate_limit - 1
        IN /\ j \in LogIdx
           /\ rl_log[j].ret - rl_log[i].ret < Window
           /\ Cardinality({m \in LogIdx : rl_log[m].w = rl_log[i].w}) = rate_limit
           /\ Cardinality({m \in LogIdx : rl_log[m].w = rl_log[j].w}) = rate_limit

----------------------------------------------------------------------------
(* RetryPolicy claims *)

InvIdx == 1..Len(r_invocations)

\* C3: with max_attempts = 3, an operation that fails with a retryable error at
\* attempts 1 and 2 and succeeds at attempt 3 makes the wrapper return the value
\* of attempt 3 after exactly 3 invocations and exactly 2 delays.
C3_Claim ==
    ( /\ r_pc = "done"
      /\ r_params.max_attempts = 3
      /\ r_script[1] = "retryable"
      /\ r_script[2] = "retryable"
      /\ r_script[3] = "ok" )
    => /\ r_result = Returned(3)
       /\ r_invocations = <<1, 2, 3>>
       /\ Len(r_delays) = 2

\* C4 (as stated): when the wrapper ends with a non-retryable error of the
\* operation, the operation was invoked exactly once and no delay was performed,
\* at whichever attempt the error occurred.
C4_Original ==
    ( /\ r_pc = "done"
      /\ r_params.max_attempts >= 1
      /\ r_result.kind = "error"
      /\ r_result.error.kind = "fatal" )
    => /\ Len(r_invocations) = 1
       /\ Len(r_delays) = 0

\* C4 (amended): when attempt k of the operation fails with a non-retryable error,
\* the wrapper propagates that same error at once: the operation is not invoked
\* again and no delay follows, so in total there are k invocations and the k - 1
\* delays that preceded attempt k (one invocation and no delay when k = 1).
C4_Amended ==
    \A k \in InvIdx :
        ( /\ k = Len(r_invocations)
          /\ r_script[k] = "fatal" )
        => /\ r_pc = "done"
           /\ r_result = Raised(ErrorAt("fatal", k))
           /\ r_invocations[k] = k
           /\ Len(r_delays) = k - 1

\* A non-retryable error at the second attempt, after one delay.
C4_Witness ==
    /\ r_pc = "done"
    /\ r_result = Raised(ErrorAt("fatal", 2))
    /\ Len(r_invocations) = 2
    /\ Len(r_delays) = 1

\* C5: for max_attempts >= 1 the operation is invoked at most max_attempts times,
\* at least once by the time the wrapper ends, and the i-th invocation is attempt
\* number i, counted from 1.
C5_AttemptBounds ==
    r_params.max_attempts >= 1 =>
        /\ Len(r_invocations) <= r_params.max_attempts
        /\ r_pc = "done" => Len(r_invocations) >= 1
        /\ \A i \in InvIdx : r_invocations[i] = i

\* The budget of 3 attempts is used up.
C5_Witness ==
    /\ r_pc = "done"
    /\ r_params.max_attempts = 3
    /\ r_invocations = <<1, 2, 3>>

\* C6: when every one of the max_attempts attempts fails with a retryable error,
\* the wrapper surfaces the error of the final attempt after exactly
\* max_attempts - 1 delays.
C6_Claim ==
    ( /\ r_pc = "done"
      /\ r_params.max_attempts >= 1
      /\ \A k \in 1..r_params.max_attempts : r_script[k] = "retryable" )
    => /\ r_result = Raised(ErrorAt("retryable", r_params.max_attempts))
       /\ Len(r_invocations) = r_params.max_attempts
       /\ Len(r_delays) = r_params.max_attempts - 1

----------------------------------------------------------------------------
(* RequestExecutor claims *)

\* C7: fetch() never raises to its caller and every call yields exactly one
\* outcome, whether the exchange succeeds, returns non-200, fails at transport
\* level, returns a malformed body, or is made with no session open.
C7_NeverRaises ==
    /\ f_escaped = 0
    /\ ~f_last.result.raised
    /\ f_returned = (IF f_pc = "idle" THEN f_calls ELSE f_calls - 1)

\* A second call, made with no session open, came back as an outcome.
C7_Witness ==
    /\ f_pc = "idle"
    /\ f_calls = 2
    /\ f_returned = 2
    /\ f_last.session = "none"
    /\ f_last.result.value.status_code = 500
    /\ f_last.result.value.error_message = "'NoneType' object has no attribute 'get'"

\* C8: with a session open, status 200 with a parseable JSON body gives ok=true,
\* the parsed payload and status_code 200; a non-200 status s gives ok=false,
\* status_code s and the raw body as error; a transport failure or a malformed
\* body gives ok=false, status_code 500 and the failure's message as error.
C8_OutcomeByHttpResult ==
    (f_last.http.kind # "none" /\ f_last.session = "open") =>
        LET h == f_last.http
            o == f_last.result.value
        IN /\ ~f_last.result.raised
           /\ (h.kind = "response" /\ h.status = 200 /\ JsonLoads(h.body).ok) =>
                /\ o.success
                /\ o.data = JsonLoads(h.body).data
                /\ o.status_code = 200
           /\ (h.kind = "response" /\ h.status # 200) =>
                /\ ~o.success
                /\ o.status_code = h.status
                /\ o.error_message = h.body
           /\ h.kind = "transport" =>
                /\ ~o.success
                /\ o.status_code = 500
                /\ o.error_message = h.msg
           /\ (h.kind = "response" /\ h.status = 200 /\ ~JsonLoads(h.body).ok) =>
                /\ ~o.success
                /\ o.status_code = 500
                /\ o.error_message = JsonLoads(h.body).msg

\* A 503 whose body came back as the error of the outcome.
C8_Witness ==
    /\ f_last.session = "open"
    /\ f_last.http.kind = "response"
    /\ f_last.http.status = 503
    /\ ~f_last.result.value.success
    /\ f_last.result.value.status_code = 503
    /\ f_last.result.value.error_message = "<html>Bad Gateway</html>"

----------------------------------------------------------------------------
(* ArbitrageAnalyzer claims *)

\* The markets of the input whose volume is a number at or above the threshold.
LiquidInputs ==
    {i \in 1..Len(a_markets) :
        /\ a_markets[i].volumeUsd24Hr.num
        /\ a_markets[i].volumeUsd24Hr.val >= MinVolumeThreshold}

\* C9: when fewer than 2 of the input quotes have volume_24h_usd >= min_volume,
\* the analysis returns an empty sequence.
C9_FewLiquidGivesEmpty ==
    (a_pc = "done" /\ Cardinality(LiquidInputs) < 2) => a_result = <<>>

\* Two markets at different prices, only one of them liquid, and an empty result.
C9_Witness ==
    /\ a_pc = "done"
    /\ Len(a_markets) >= 2
    /\ Cardinality(LiquidInputs) = 1
    /\ \E i, j \in 1..Len(a_markets) :
        /\ a_markets[i].priceUsd.num
        /\ a_markets[j].priceUsd.num
        /\ a_markets[i].volumeUsd24Hr.num
        /\ a_markets[j].volumeUsd24Hr.num
        /\ a_markets[i].priceUsd.val = 95
        /\ a_markets[j].priceUsd.val = 101
    /\ a_result = <<>>

\* C10: every opportunity returned has buy_exchange different from
\* sell_exchange, also when the input holds several markets of one exchange.
C10_Claim ==
    \A k \in 1..Len(a_result) : a_result[k].buy_exchange # a_result[k].sell_exchange

\* The opportunities of the result, by position.
OppIdx == 1..Len(a_result)

\* C11: every opportunity returned has spread_pct >= min_spread_pct and
\* buy_price <= sell_price, for every input and every min_spread_pct.
C11_SpreadAndDirection ==
    \A k \in OppIdx :
        /\ a_result[k].spread_num * 100 >= min_spread_percentage * a_result[k].spread_den
        /\ a_result[k].buy_price <= a_result[k].sell_price

\* An input with a pair of liquid markets under the minimum spread (100 and 101
\* at a minimum of 2 percent) and a pair over it, the latter alone returned.
C11_Witness ==
    /\ a_pc = "done"
    /\ min_spread_percentage = 200
    /\ \E i, j \in LiquidInputs :
        /\ a_markets[i].priceUsd.num /\ a_markets[i].priceUsd.val = 100
        /\ a_markets[j].priceUsd.num /\ a_markets[j].priceUsd.val = 101
    /\ Len(a_result) = 2
    /\ \A k \in OppIdx : a_result[k].buy_price = 95

\* C12: the sequence returned is sorted by spread_pct descending: of two
\* adjacent opportunities the earlier has spread_pct >= the later.
C12_SortedDescending ==
    \A k \in OppIdx :
        k + 1 \in OppIdx =>
            a_result[k].spread_num * a_result[k + 1].spread_den
                >= a_result[k + 1].spread_num * a_result[k].spread_den

\* Three opportunities of three different spreads, which the loops find in
\* another order (95->100, 95->101, 100->101) than the one returned.
C12_Witness ==
    /\ a_pc = "done"
    /\ Len(a_result) = 3
    /\ a_result[1].buy_price = 95 /\ a_result[1].sell_price = 101
    /\ a_result[2].buy_price = 95 /\ a_result[2].sell_price = 100
    /\ a_result[3].buy_price = 100 /\ a_result[3].sell_price = 101

\* The input in another order of supply.
SupplyOrders(n) == {p \in [1..n -> 1..n] : \A i, j \in 1..n : p[i] = p[j] => i = j}
Permuted(ms, p) == [i \in 1..Len(ms) |-> ms[p[i]]]

\* C13: the output (which opportunities, their direction and their order)
\* depends only on the set of input quotes and not on the order they are
\* supplied in, equal prices and equal spreads included.
C13_Claim ==
    a_pc = "done" =>
        \A p \in SupplyOrders(Len(a_markets)) :
            CollectFromMarkets(Permuted(a_markets, p), min_spread_percentage).result
                = a_result

\* The quotes of the scenario of C14, in any order of supply.
ScenarioQuotes ==
    {Market("X", Num(100), Num(200000)),
     Market("Y", Num(101), Num(200000)),
     Market("Z", Num(95), Num(50))}

IsScenario ==
    /\ Len(a_markets) = 3
    /\ {a_markets[i] : i \in 1..3} = ScenarioQuotes
    /\ min_spread_percentage = 50

\* C14: from X (100, volume 200000), Y (101, volume 200000) and Z (95, volume
\* 50), with min_volume 100000 and min_spread_pct 0.5, Z is left out and exactly
\* one opportunity is returned: buy on X at 100, sell on Y at 101, spread 1.0.
C14_Scenario ==
    (a_pc = "done" /\ IsScenario) =>
        /\ Len(a_result) = 1
        /\ a_result[1].buy_exchange = "X" /\ a_result[1].buy_price = 100
        /\ a_result[1].sell_exchange = "Y" /\ a_result[1].sell_price = 101
        /\ a_result[1].spread_num = 1 * a_result[1].spread_den

C14_Witness ==
    /\ a_pc = "done"
    /\ a_markets = <<Market("X", Num(100), Num(200000)),
                     Market("Y", Num(101), Num(200000)),
                     Market("Z", Num(95), Num(50))>>
    /\ min_spread_percentage = 50
    /\ Len(a_result) = 1

\* Every quote of the input has a number for price, and the number is <= 0.
AllPricesNonPositive ==
    \A i \in 1..Len(a_markets) :
        a_markets[i].priceUsd.num /\ a_markets[i].priceUsd.val <= 0

\* C15: when every quote has price <= 0 the result is empty and no error is
\* raised; and no quote with price <= 0 is ever the buy or the sell side of an
\* opportunity.
C15_NonPositivePrices ==
    /\ \A k \in OppIdx : a_result[k].buy_price > 0 /\ a_result[k].sell_price > 0
    /\ (a_pc = "done" /\ AllPricesNonPositive) =>
            (a_result = <<>> /\ errors_count = 0)

\* Liquid quotes priced 0 and below and nothing else: the loops reach the pairs
\* and skip every one of them.
C15_Witness ==
    /\ a_pc = "done"
    /\ AllPricesNonPositive
    /\ Cardinality(LiquidInputs) = Len(a_markets)
    /\ \E i, j \in 1..Len(a_markets) :
        a_markets[i].priceUsd.val = 0 /\ a_markets[j].priceUsd.val < 0
    /\ a_result = <<>>
    /\ errors_count = 0

----------------------------------------------------------------------------
(* Collector claims *)

Symbols == Range(target_symbols)

\* The target assets whose adapter call raised in the current run.
FailedAssets == {k \in Symbols : c_adapter[k].raised}

\* The first run over three target assets is over; the adapter call raised for
\* exactly one of them and returned for the other two and for the exchanges.
OneAssetFailed ==
    /\ c_pc = "idle"
    /\ c_runs = 1
    /\ Len(target_symbols) = 3
    /\ Cardinality(FailedAssets) = 1
    /\ \A k \in (Symbols \ FailedAssets) \cup {ExchangesKey} :
        c_adapter[k] # NoAdapterCall /\ ~c_adapter[k].raised

\* C16: with three target assets of which exactly one's adapter call raises,
\* the aggregate result has an empty opportunity list for that asset, the lists
\* of the other two are what they are without the failure, and errors == 1.
C16_Claim ==
    OneAssetFailed =>
        /\ c_outcome.kind = "returned"
        /\ DOMAIN c_outcome.value.arbitrage_opportunities = Symbols
        /\ \A k \in FailedAssets : c_outcome.value.arbitrage_opportunities[k] = <<>>
        /\ \A k \in Symbols \ FailedAssets :
            /\ c_outcome.value.arbitrage_opportunities[k] # <<>>
            /\ c_outcome.value.arbitrage_opportunities[k] =
                    CollectFromMarkets(c_adapter[k].value, min_spread_percentage).result
        /\ c_outcome.value.metrics.errors_count = 1

\* C17: a collection cycle never raises to its caller: whatever fails inside,
\* it returns an aggregate with the exchange listing, an opportunity list for
\* every target asset and a populated metrics snapshot.
C17_Claim ==
    (c_pc = "idle" /\ c_runs >= 1) =>
        /\ c_outcome.kind = "returned"
        /\ DOMAIN c_outcome.value.arbitrage_opportunities = Symbols
        /\ c_outcome.value.metrics.taken

\* C18: the metrics are reset at the start of each run: after a run, the
\* second on the same collector included, they count the events of that run only.
C18_Claim ==
    (c_pc = "idle" /\ c_runs >= 1) =>
        /\ api_calls_made = c_run_events.calls
        /\ errors_count = c_run_events.errors

\* C19: no step of a run lowers exchanges_collected, opportunities_found,
\* api_calls_made, cache_hits or errors_count.
C19_Claim ==
    [][/\ exchanges_collected' >= exchanges_collected
       /\ opportunities_found' >= opportunities_found
       /\ api_calls_made' >= api_calls_made
       /\ cache_hits' >= cache_hits
       /\ errors_count' >= errors_count]_vars

----------------------------------------------------------------------------
(* TTLCache claims *)

\* The last direct call found an entry stored `CallAge` seconds before it.
FoundEntry == k_call.key # "none" /\ k_call.before.stored
CallAge == k_call.at - k_call.before.stored_at

\* C20: a call made less than ttl after the value of its key was stored does
\* not invoke the computation and returns the stored value; a call made more
\* than ttl after it invokes the computation again and stores what it returns.
C20_TtlCache ==
    FoundEntry =>
        /\ CallAge < TtlOf(k_call.key) =>
            /\ k_call.invocations = 0
            /\ k_call.value = k_call.before.value
        /\ CallAge > TtlOf(k_call.key) =>
            /\ k_call.invocations = 1
            /\ cache[k_call.key].stored_at = k_call.at

\* A call for the first asset 61 seconds or more after the store, which
\* computed again, following a call for the same asset less than 60 seconds
\* after the store, which did not.
C20_Witness ==
    /\ FoundEntry
    /\ k_call.key = DefaultSymbols[1]
    /\ CallAge > OpportunitiesTtl
    /\ k_call.invocations = 1
    /\ k_call.previous.key = k_call.key
    /\ k_call.previous.invocations = 0
    /\ k_call.previous.at > k_call.before.stored_at
    /\ k_call.previous.at - k_call.before.stored_at < OpportunitiesTtl

\* The last two direct calls had the same key and the earlier one ended in a
\* failure (an adapter error turned into an empty result).
AfterFailedCall ==
    /\ k_call.key # "none"
    /\ k_call.previous.key = k_call.key
    /\ k_call.previous.failed

\* C21: a failure is not stored: the next call with the same arguments inside
\* the ttl invokes the adapter again and is not answered with the stored
\* empty result.
C21_Claim ==
    (AfterFailedCall /\ k_call.at - k_call.previous.at < TtlOf(k_call.key)) =>
        k_call.invocations = 1

----------------------------------------------------------------------------
(* SourceAdapter claims *)

\* The payload holds no record: None, {} or an empty list of records.
EmptyPayload(data) ==
    \/ data.kind \in {"None", "empty dict"}
    \/ data.kind = "dict" /\ data.records = <<>>

\* C23: when the executor's outcome has success == false or an empty payload,
\* every adapter fetch method returns an empty collection and does not raise.
C23_Claim ==
    (ad_pc = "done" /\ (~ad_response.success \/ EmptyPayload(ad_response.data))) =>
        ad_outcome = AdapterReturns(<<>>)

\* The records of the input with a field that is not a number (the sentinel
\* the adapter puts in for an absent field, or a string float() rejects).
MalformedInputs ==
    {i \in 1..Len(a_markets) :
        ~a_markets[i].priceUsd.num \/ ~a_markets[i].volumeUsd24Hr.num}

WithoutRecord(ms, i) ==
    [k \in 1..(Len(ms) - 1) |-> IF k < i THEN ms[k] ELSE ms[k + 1]]

\* C24: when one of the k market records has a missing or malformed field,
\* that record is left out or falls back to a sentinel, the other k-1 records
\* are analysed as they are without it, and the batch does not fail.
C24_Claim ==
    a_pc = "done" =>
        \A i \in 1..Len(a_markets) :
            MalformedInputs = {i} =>
                /\ errors_count = 0
                /\ a_result = CollectFromMarkets(WithoutRecord(a_markets, i),
                                                 min_spread_percentage).result

----------------------------------------------------------------------------
(* RateLimiter claims, shared limiter *)

\* The returns that fell into the window that started at `win`.
ReturnsIn(win) == {j \in LogIdx : rl_log[j].w = win}

\* C25: with one limiter shared by concurrent tasks the counter never
\* undercounts: under every interleaving at most N acquires return within one
\* window, also when several tasks were suspended together waiting for the
\* same roll-over.
C25_Claim ==
    \A i \in LogIdx : Cardinality(ReturnsIn(rl_log[i].w)) <= rate_limit

\* The last instant of the model's clock.
LastTimePoint == MaxWindows * Window + 1

\* A suspended acquire is due later than it was issued and at most one window
\* later; an acquire that returned did so at its issue or after its one
\* suspension, and the counter stands at 1 or more.
AcquireOnlyDelays ==
    /\ \A t \in Tasks :
        rl_pc[t] = "sleeping" =>
            /\ rl_wake[t] > rl_issued[t].at
            /\ rl_wake[t] - rl_issued[t].at <= Window
    /\ \A i \in LogIdx :
        /\ ~rl_log[i].susp => rl_log[i].ret = rl_log[i].issued
        /\ rl_log[i].susp => rl_log[i].ret > rl_log[i].issued
    /\ rl_log # <<>> => request_count >= 1

\* C26: acquire() cannot fail: whatever the counter and the time elapsed since
\* window-start, it raises nothing and returns, after at most one suspension
\* of at most one window, with the counter incremented.
C26_AcquireReturns ==
    /\ []AcquireOnlyDelays
    /\ \A t \in SingleCaller :
        (rl_pc[t] = "sleeping" /\ rl_wake[t] <= LastTimePoint) ~> (rl_pc[t] = "idle")

\* An acquire that was suspended with the counter at the ceiling and returned,
\* and one that returned at once after the window had rolled over.
C26_Witness ==
    /\ \E i \in LogIdx : rl_log[i].susp /\ rl_log[i].ret = rl_log[i].iw + Window
    /\ \E i \in LogIdx : ~rl_log[i].susp /\ rl_log[i].iw > 0
    /\ request_count >= 1

----------------------------------------------------------------------------
(* Retry preset claims *)

\* A client error: an HTTP error of the 4xx class.
IsClientError(kind) == kind = "ClientResponseError:4xx"

----------------------------------------------------------------------------
(* Session scoping claims *)

SessionOf(k) == c_run_events.sessions[k]

\* C28: the session an operation's adapter acquired on entering its scope is
\* open while the body waits for the adapter and released once the body has
\* left the scope, also when the adapter call raised inside it; when a
\* collection pass has finished no session opened during it is still open.
C28_SessionsReleased ==
    /\ \A k \in CacheKeys :
        /\ c_tasks[k].pc = "waiting" => SessionOf(k) = "open"
        /\ c_tasks[k].pc = "done" => SessionOf(k) # "open"
        /\ c_adapter[k] # NoAdapterCall => SessionOf(k) = "closed"
    /\ c_pc = "idle" => \A k \in CacheKeys : SessionOf(k) # "open"

\* A finished pass in which one adapter call raised and another returned, both
\* with their sessions closed.
C28_Witness ==
    /\ c_pc = "idle"
    /\ c_runs >= 1
    /\ \E k \in CacheKeys : c_adapter[k] = AdapterRaises /\ SessionOf(k) = "closed"
    /\ \E k \in CacheKeys :
        /\ c_adapter[k] \notin {AdapterRaises, NoAdapterCall}
        /\ SessionOf(k) = "closed"

----------------------------------------------------------------------------
(* Synchronous and asynchronous retry wrapper *)

----------------------------------------------------------------------------
(* Collector retry composition *)

\* C30: an adapter fetch of a collection pass, of the exchange listing or of a
\* target asset, that failed and was given up as an empty result with an error
\* counted, was attempted as often as the retry budget allows.
C30_Claim ==
    \A k \in CacheKeys :
        c_adapter[k] = AdapterRaises =>
            c_run_events.fetches[k] = CollectorRetryBudget

----------------------------------------------------------------------------
(* Collector batching *)

FirstBatch == {ExchangesKey, target_symbols[1]}
SecondBatch == Range(Tail(target_symbols))
Starts(k) == c_tasks[k].pc = "none" /\ c_tasks'[k].pc # "none"

\* C31: the exchange listing and the first target asset start in one step, as
\* one batch; a task of a remaining asset starts only in a step taken when both
\* tasks of the first batch have ended, whether with a list or with an error,
\* and in that step all remaining assets start together.
C31_BatchOrder ==
    [][target_symbols # <<>> =>
        /\ \A k \in FirstBatch :
            Starts(k) => c_pc = "idle" /\ \A j \in FirstBatch : Starts(j)
        /\ \A k \in SecondBatch :
            Starts(k) =>
                /\ c_pc = "batch1"
                /\ \A j \in FirstBatch : c_tasks[j].pc = "done"
                /\ \A j \in SecondBatch : Starts(j)]_vars

\* Both remaining assets wait for their adapter at once, after a first batch
\* in which the exchange listing failed and the first asset returned.
C31_Witness ==
    /\ c_pc = "batch2"
    /\ Len(target_symbols) = 3
    /\ \A k \in SecondBatch : c_tasks[k].pc = "waiting"
    /\ c_adapter[ExchangesKey] = AdapterRaises
    /\ c_adapter[target_symbols[1]] \notin {AdapterRaises, NoAdapterCall}

----------------------------------------------------------------------------
(* ArbitrageAnalyzer completeness *)

\* Every field of every record of the input is a number: the input is a list
\* of quotes.
InputIsQuotes ==
    \A i \in 1..Len(a_markets) :
        a_markets[i].priceUsd.num /\ a_markets[i].volumeUsd24Hr.num

\* The liquid quotes with a price above 0.
TradableInputs == {i \in LiquidInputs : a_markets[i].priceUsd.val > 0}

PriceAt(i) == a_markets[i].priceUsd.val

\* The pairs of distinct tradable quotes whose spread, from the cheaper to the
\* dearer, is at least the minimum (in hundredths of a percent).
QualifyingPairs ==
    {q \in TradableInputs \X TradableInputs :
        /\ q[1] < q[2]
        /\ LET lo == Min(PriceAt(q[1]), PriceAt(q[2]))
               hi == Max(PriceAt(q[1]), PriceAt(q[2]))
           IN (hi - lo) * 100 * 100 >= min_spread_percentage * lo}

\* The opportunity of a pair: the cheaper quote is the buy side; at equal prices
\* either may be.
OpportunitiesOf(q) ==
    LET sides == {r \in {<<q[1], q[2]>>, <<q[2], q[1]>>} : PriceAt(r[1]) <= PriceAt(r[2])}
    IN {ArbitrageData(a_markets[r[1]], a_markets[r[2]]) : r \in sides}

\* C32: on a list of quotes the result holds one opportunity for each
\* qualifying pair of liquid quotes, the cheaper quote being its buy side, and
\* nothing else: as many entries as qualifying pairs, each pair with an entry,
\* and no entry more often than there are pairs it is the opportunity of.
C32_Complete ==
    (a_pc = "done" /\ InputIsQuotes) =>
        /\ Len(a_result) = Cardinality(QualifyingPairs)
        /\ \A q \in QualifyingPairs : \E k \in OppIdx : a_result[k] \in OpportunitiesOf(q)
        /\ \A k \in OppIdx :
            Cardinality({j \in OppIdx : a_result[j] = a_result[k]})
                <= Cardinality({q \in QualifyingPairs : a_result[k] \in OpportunitiesOf(q)})

\* Three liquid quotes at 95, 100 and 101 with a minimum spread of 2 percent:
\* the two pairs from 95 are returned, the pair 100/101 is not.
C32_Witness ==
    /\ a_pc = "done"
    /\ InputIsQuotes
    /\ Cardinality(TradableInputs) = 3
    /\ {PriceAt(i) : i \in TradableInputs} = {95, 100, 101}
    /\ min_spread_percentage = 200
    /\ Cardinality(QualifyingPairs) = 2
    /\ Len(a_result) = 2

----------------------------------------------------------------------------
(* RetryPolicy delay schedule *)

RECURSIVE Power(_, _)
Power(b, n) == IF n = 0 THEN 1 ELSE b * Power(b, n - 1)

\* base_delay * backoff_factor^(k-1), the factor being in tenths
NominalDelay(k) ==
    (r_params.delay * Power(r_params.backoff, k - 1)) \div Power(10, k - 1)

\* Attempt k failed with a retryable error while attempts remained, and the
\* wrapper has dealt with it.
RetryDue(k) ==
    /\ k \in InvIdx
    /\ r_script[k] = "retryable"
    /\ k < r_params.max_attempts
    /\ (r_pc \in {"done", "sleeping"} \/ Len(r_invocations) > k)

\* C33: the delay slept before the k-th retry is base_delay *
\* backoff_factor^(k-1) without jitter, and with jitter within 25% of it and
\* not below 0.1 s; after it the operation is invoked again.
C33_Claim ==
    \A k \in 1..MaxAttempts :
        RetryDue(k) =>
            /\ Len(r_delays) >= k
            /\ IF r_params.jitter
               THEN /\ 4 * r_delays[k] >= 3 * NominalDelay(k)
                    /\ 4 * r_delays[k] <= 5 * NominalDelay(k)
                    /\ r_delays[k] >= 100
               ELSE r_delays[k] = NominalDelay(k)
            /\ r_pc = "done" => Len(r_invocations) >= k + 1

----------------------------------------------------------------------------
(* RequestExecutor and RateLimiter together *)

LastAcquire == rl_log[Len(rl_log)]

\* C34: every GET follows one acquire() of its own on the adapter's limiter:
\* there are as many returns of acquire() as calls that got past it; the
\* latency clock of a GET in flight was started when its acquire() returned,
\* after the wait if there was one, so that the latency reported excludes the
\* wait; and a GET in flight is one of at most rate_limit acquires returned in
\* the limiter's current window.
C34_AcquireBeforeGet ==
    /\ Len(rl_log) = f_calls - (IF f_pc = "acquiring" THEN 1 ELSE 0)
    /\ f_pc = "http" =>
        /\ rl_log # <<>>
        /\ f_start = LastAcquire.ret
        /\ LastAcquire.susp => f_start >= LastAcquire.issued + 1
        /\ request_count <= rate_limit
        /\ Cardinality(ReturnsIn(last_minute_start)) <= rate_limit
    /\ (f_pc = "idle" /\ f_calls >= 1 /\ ~f_last.result.raised) =>
        f_last.result.value.response_time_ms <= (now - LastAcquire.ret) * 1000

\* A GET is in flight whose acquire() had to wait for the next window.
C34_Witness ==
    /\ f_pc = "http"
    /\ rl_log # <<>>
    /\ LastAcquire.susp
    /\ f_start = LastAcquire.issued + Window
    /\ session = "open"

----------------------------------------------------------------------------
(* RateLimiter counter *)

\* An acquire() returns in this step.
AcquireReturns == Len(rl_log') = Len(rl_log) + 1

\* C35: with a single caller the counter stays between 0 and rate_limit, so
\* the status never reports a negative requests_remaining; and an acquire()
\* called when 60 s have passed since window-start returns with the counter
\* at 1, itself counted after the reset to 0, and window-start at the time of
\* the call.
C35_CounterBound ==
    /\ [](/\ 0 <= request_count
          /\ request_count <= rate_limit
          /\ GetRateLimitStatus.requests_remaining >= 0)
    /\ [][\A t \in SingleCaller :
            ( /\ rl_pc[t] = "idle"
              /\ WindowElapsed(now, last_minute_start)
              /\ AcquireReturns )
            => /\ request_count' = 1
               /\ last_minute_start' = now]_vars

\* The first window was used up to the ceiling of 2, and an acquire() called
\* after it had passed has reset the counter and counted itself.
C35_Witness ==
    /\ rate_limit = 2
    /\ Cardinality(ReturnsIn(0)) = 2
    /\ rl_log # <<>>
    /\ ~LastAcquire.susp
    /\ LastAcquire.issued >= Window
    /\ LastAcquire.w = LastAcquire.issued
    /\ request_count = 1
    /\ last_minute_start = LastAcquire.issued

----------------------------------------------------------------------------
(* Rate-limit slots of the executor *)

\* C36: every fetch takes one slot of the limiter whatever becomes of it: the
\* counter equals the number of acquires returned in the current window, one
\* for each fetch that got past acquire(), and the step in which the exchange
\* resolves, with a success, a status other than 200 or a transport failure,
\* leaves the counter as it is.
C36_OneSlotPerFetch ==
    /\ [](request_count = Cardinality(ReturnsIn(last_minute_start)))
    /\ [](Len(rl_log) = f_calls - (IF f_pc = "acquiring" THEN 1 ELSE 0))
    /\ [][(f_pc = "http" /\ f_pc' = "idle") =>
            /\ request_count' = request_count
            /\ last_minute_start' = last_minute_start]_vars

\* Two fetches in one window, the second of which failed at transport level,
\* and the counter at 2.
C36_Witness ==
    /\ f_pc = "idle"
    /\ f_calls = 2
    /\ session = "open"
    /\ f_last.http.kind = "transport"
    /\ rate_limit = 2
    /\ request_count = 2
    /\ Cardinality(ReturnsIn(last_minute_start)) = 2

----------------------------------------------------------------------------
(* RequestOutcome consistency *)

\* The outcome of the last fetch that returned one.
LastOutcome == f_last.result.value

----------------------------------------------------------------------------
(* Metrics under concurrent tasks *)

\* The tasks whose body starts in this step, and those whose adapter call is
\* found to have raised in it.
BodiesStarted == {k \in CacheKeys : c_tasks[k].pc # "waiting" /\ c_tasks'[k].pc = "waiting"}
AdapterFailures ==
    {k \in CacheKeys :
        /\ c_tasks[k].pc = "waiting"
        /\ c_tasks'[k].pc = "done"
        /\ c_adapter'[k] = AdapterRaises}

\* C38: in every step of a run, in whatever order the tasks of a batch
\* resolve, api_calls_made grows by one for each task whose body starts and
\* errors_count by one for each task whose adapter call raised.
C38_NoLostUpdates ==
    [][target_symbols # <<>> =>
        /\ api_calls_made' - api_calls_made = Cardinality(BodiesStarted)
        /\ errors_count' - errors_count = Cardinality(AdapterFailures)]_vars

\* A first run over three assets has ended: four bodies ran, and the adapter
\* calls of the two remaining assets, resolved side by side, both raised.
C38_Witness ==
    /\ c_pc = "idle"
    /\ c_runs = 1
    /\ Len(target_symbols) = 3
    /\ api_calls_made = 4
    /\ \A k \in SecondBatch : c_adapter[k] = AdapterRaises
    /\ \A k \in FirstBatch : c_adapter[k] \notin {AdapterRaises, NoAdapterCall}
    /\ errors_count = 2

----------------------------------------------------------------------------
(* performance_monitor *)

\* C39: performance_monitor hands on what the wrapped operation gave: a task
\* whose operation returned a list, from its body or from the cache, ends with
\* that list, never with an error.
C39_Claim ==
    \A k \in CacheKeys :
        c_tasks[k].pc = "done" => c_tasks[k].result = Returns(cache[k].value)

----------------------------------------------------------------------------
(* RetryPolicy without attempts *)

\* C40: with max_attempts <= 0 the operation is never invoked and no delay is
\* slept; the wrapper, asynchronous or synchronous, ends with an error (the
\* TypeError of `raise last_exception` with last_exception still None), never
\* with a value.
C40_NoAttempts ==
    r_params.max_attempts <= 0 =>
        /\ r_invocations = <<>>
        /\ r_delays = <<>>
        /\ r_result.kind # "value"
        /\ r_pc = "done" => r_result = Raised(ErrorAt("TypeError", 0))
        /\ \A draws \in JitterDraws :
            SyncRun(r_params, r_script, draws) =
                RunOf(<<>>, <<>>, Raised(ErrorAt("TypeError", 0)))

\* The wrapper has ended with max_attempts = 0 and with max_attempts = -1 for
\* an operation that would have returned at once.
C40_Witness ==
    /\ r_pc = "done"
    /\ r_params.max_attempts \in {-1, 0}
    /\ r_script # <<>>
    /\ r_script[1] = "ok"
    /\ r_result = Raised(ErrorAt("TypeError", 0))
    /\ r_invocations = <<>>

====
